---- MODULE Spec2Model ----
(***************************************************************************)
(* Model of the slcan bus driver (can/interfaces/slcan.py): the transport  *)
(* writer, the session commands, the construction sequence, the line       *)
(* framer (_read), the frame codec (send / _recv_internal) and the query   *)
(* commands; the cyclic send tasks that run on the bus and the list of     *)
(* them the bus keeps; and two threads that read one bus concurrently.     *)
(*                                                                         *)
(* A byte is a one-token string; CR and BEL are the two terminators and    *)
(* HI stands for a byte >= 0x80 that bytes.decode() rejects.  A string is  *)
(* a sequence of such tokens.                                              *)
(***************************************************************************)
EXTENDS Integers, Sequences, FiniteSets, TLC

VARIABLES
    phase,          \* "new" before __init__, "up" after it returned, "failed" after it raised
    port,           \* serialPortOrig: "none" (not created), "open", "closed"
    listen_only,    \* self._listen_only
    write_timeout,  \* serialPortOrig.write_timeout
    is_shutdown,    \* BusABC._is_shutdown
    wire,           \* every line handed to serialPortOrig.write, in order
    buffer,         \* self._buffer
    rx,             \* bytes waiting in the transport (serialPortOrig.in_waiting of them)
    pending,        \* bytes the adapter has still to deliver
    stream,         \* every byte the adapter delivers over the life of the bus
    sent,           \* the messages whose command line the adapter echoed back as a frame
    rd,             \* the _read in progress: its caller, deadline and position
    last,           \* the last completed call: name, arguments, exception, result
    hist,           \* the completed reads: caller, the string _read returned, the result
    calls,          \* number of calls made after construction
    tasks,          \* the cyclic send tasks that were created, in order of creation
    periodic_tasks, \* BusABC._periodic_tasks: the tasks the bus keeps track of
    thr,            \* the threads that read the bus concurrently: position and locals
    mutex           \* the lock callers may put around the bus: in use or not, its holder

taskvars == <<tasks, periodic_tasks>>
threadvars == <<thr, mutex>>

vars == <<phase, port, listen_only, write_timeout, is_shutdown, wire,
          buffer, rx, pending, stream, sent, rd, last, hist, calls,
          tasks, periodic_tasks, thr, mutex>>

-----------------------------------------------------------------------------
(* Bounds of the model *)

\* calls made on a constructed bus in the session specification
MaxCalls == 2
\* read, recv and query calls made in the framer and receive specifications
MaxReads == 2
\* length of the inbound byte stream in the framer specification
MaxStream == 3
\* number of response units in the inbound stream of the receive specification
MaxUnits == 2
\* flush calls made in a behaviour
MaxFlushes == 1
\* cyclic send tasks created in the task specification
MaxTasks == 3
\* sends made by the tasks of the task specification, all together
MaxTicks == 2

-----------------------------------------------------------------------------
(* Bytes and strings *)

CR == "CR"
BEL == "BEL"
HI == "HI"
\* the character U+00B2 (superscript two): str.isdigit() holds of it, int() rejects it
SUP2 == "SUP2"

HexChars == <<"0", "1", "2", "3", "4", "5", "6", "7", "8", "9",
              "A", "B", "C", "D", "E", "F">>
LowerHex == <<"a", "b", "c", "d", "e", "f">>

RECURSIVE Concat(_)
Concat(ss) == IF ss = <<>> THEN <<>> ELSE Head(ss) \o Concat(Tail(ss))

Min(a, b) == IF a < b THEN a ELSE b

\* Python's s[i:j] (0-based, half-open, clipped to the string)
Slice(s, i, j) == SubSeq(s, i + 1, Min(j, Len(s)))

\* format(n, 'X') / f"{n:0wX}": at least w uppercase hex digits
RECURSIVE ToHex(_, _)
ToHex(n, w) ==
    IF n < 16 /\ w <= 1 THEN <<HexChars[n + 1]>>
    ELSE ToHex(n \div 16, w - 1) \o <<HexChars[(n % 16) + 1]>>

\* f"{n:0wd}": at least w decimal digits
RECURSIVE ToDec(_, _)
ToDec(n, w) ==
    IF n < 10 /\ w <= 1 THEN <<HexChars[n + 1]>>
    ELSE ToDec(n \div 10, w - 1) \o <<HexChars[(n % 10) + 1]>>

\* bytes.hex().upper(): two uppercase hex digits per byte
RECURSIVE BytesHex(_)
BytesHex(bs) ==
    IF bs = <<>> THEN <<>>
    ELSE IF Len(bs) = 1 THEN ToHex(bs[1], 2)
    ELSE LET h == Len(bs) \div 2
         IN  BytesHex(SubSeq(bs, 1, h)) \o BytesHex(SubSeq(bs, h + 1, Len(bs)))

-----------------------------------------------------------------------------
(* Messages and the encoder: encode_dlc_hex and the command string of send *)

FdMax == 64

\* can.Message as send reads it; dlc and data are independent fields
Message(id, ext, remote, fd, brs, dlc, data) ==
    [arbitration_id |-> id, is_extended_id |-> ext, is_remote_frame |-> remote,
     is_fd |-> fd, bitrate_switch |-> brs, dlc |-> dlc, data |-> data]

encode_dlc_hex(data_length) ==
    IF 0 <= data_length /\ data_length <= 8 THEN HexChars[data_length + 1]
    ELSE IF data_length = 12 THEN "9"
    ELSE IF data_length = 16 THEN "A"
    ELSE IF data_length = 20 THEN "B"
    ELSE IF data_length = 24 THEN "C"
    ELSE IF data_length = 32 THEN "D"
    ELSE IF data_length = 48 THEN "E"
    ELSE "F"

\* '00' * n (the empty string for n <= 0)
RECURSIVE Zeros(_)
Zeros(n) ==
    IF n <= 0 THEN <<>>
    ELSE IF n = 1 THEN <<"0", "0">>
    ELSE Zeros(n \div 2) \o Zeros(n - (n \div 2))

\* the padding send appends to an FD frame
FdPadding(msg, dlc_hex) ==
    IF dlc_hex = "F" /\ msg.dlc < FdMax THEN Zeros(FdMax - msg.dlc) ELSE <<>>

\* sendStr of send (lines 361-388)
SendStr(msg) ==
    IF msg.is_fd
    THEN LET dlc_hex == encode_dlc_hex(msg.dlc)
             head == IF msg.bitrate_switch
                     THEN IF msg.is_extended_id
                          THEN <<"B">> \o ToHex(msg.arbitration_id, 8) \o <<dlc_hex>>
                          ELSE <<"b">> \o ToHex(msg.arbitration_id, 3) \o <<dlc_hex>>
                     ELSE IF msg.is_extended_id
                          THEN <<"D">> \o ToHex(msg.arbitration_id, 8) \o <<dlc_hex>>
                          ELSE <<"d">> \o ToHex(msg.arbitration_id, 3) \o <<dlc_hex>>
         IN  head \o BytesHex(msg.data) \o FdPadding(msg, dlc_hex)
    ELSE IF msg.is_remote_frame
         THEN IF msg.is_extended_id
              THEN <<"R">> \o ToHex(msg.arbitration_id, 8) \o ToDec(msg.dlc, 1)
              ELSE <<"r">> \o ToHex(msg.arbitration_id, 3) \o ToDec(msg.dlc, 1)
         ELSE (IF msg.is_extended_id
               THEN <<"T">> \o ToHex(msg.arbitration_id, 8) \o ToDec(msg.dlc, 1)
               ELSE <<"t">> \o ToHex(msg.arbitration_id, 3) \o ToDec(msg.dlc, 1))
              \o BytesHex(msg.data)

-----------------------------------------------------------------------------
(* The transport writer and the session commands *)

\* an optional argument: None, or the value wrapped
None == <<>>
Some(x) == <<x>>

\* what serialPortOrig.write / flush can do to one _write
WriteKinds == {"write_error", "flush_error"}

\* WriteSeq with the state of the transport ignored: a closed transport takes the line
WriteSeq_IgnoresPort(p, cmds, at, kind) ==
    LET n == Len(cmds)
        lines == [i \in 1..n |-> cmds[i] \o <<CR>>]
    IN  IF at = 0 \/ at > n THEN [wrote |-> lines, ok |-> TRUE]
        ELSE [wrote |-> SubSeq(lines, 1, IF kind = "flush_error" THEN at ELSE at - 1),
              ok |-> FALSE]

\* WriteSeq going on to the commands that follow a failed write
WriteSeq_CarriesOn(p, cmds, at, kind) ==
    LET n == Len(cmds)
        lines == [i \in 1..n |-> cmds[i] \o <<CR>>]
    IN  IF n = 0 THEN [wrote |-> <<>>, ok |-> TRUE]
        ELSE IF p # "open" THEN [wrote |-> <<>>, ok |-> FALSE]
        ELSE IF at = 0 \/ at > n THEN [wrote |-> lines, ok |-> TRUE]
        ELSE [wrote |-> SubSeq(lines, 1, IF kind = "flush_error" THEN at ELSE at - 1)
                        \o SubSeq(lines, at + 1, n),
              ok |-> FALSE]

\* WriteSeq with the last line left in a buffer: written, not flushed to the transport
WriteSeq_HoldsBack(p, cmds, at, kind) ==
    LET n == Len(cmds)
        lines == [i \in 1..n |-> cmds[i] \o <<CR>>]
    IN  IF n = 0 THEN [wrote |-> <<>>, ok |-> TRUE]
        ELSE IF p # "open" THEN [wrote |-> <<>>, ok |-> FALSE]
        ELSE IF at = 0 \/ at > n THEN [wrote |-> SubSeq(lines, 1, n - 1), ok |-> TRUE]
        ELSE [wrote |-> SubSeq(lines, 1, at - 1), ok |-> FALSE]

\* _write applied to each command of cmds in turn on the transport in state p: every
\* line is the command plus the terminator; write number `at` fails (0: none does),
\* either in write (nothing of it is written) or in flush (it was written); a transport
\* that is not open fails the first write.  An exception ends the sequence.
WriteSeq(p, cmds, at, kind) ==
    LET n == Len(cmds)
        lines == [i \in 1..n |-> cmds[i] \o <<CR>>]
    IN  IF n = 0 THEN [wrote |-> <<>>, ok |-> TRUE]
        ELSE IF p # "open" THEN [wrote |-> <<>>, ok |-> FALSE]
        ELSE IF at = 0 \/ at > n THEN [wrote |-> lines, ok |-> TRUE]
        ELSE [wrote |-> SubSeq(lines, 1, IF kind = "flush_error" THEN at ELSE at - 1),
              ok |-> FALSE]

\* open() writing "O" whatever the mode
open_AlwaysNormal(lo) == << <<"O">> >>

\* open(): "L" for a listen-only bus, "O" otherwise
open(lo) == IF lo THEN << <<"L">> >> ELSE << <<"O">> >>

\* close(): "C"
close == << <<"C">> >>

BITRATES ==
    (10000 :> <<"S", "0">>) @@ (20000 :> <<"S", "1">>) @@ (50000 :> <<"S", "2">>) @@
    (100000 :> <<"S", "3">>) @@ (125000 :> <<"S", "4">>) @@ (250000 :> <<"S", "5">>) @@
    (500000 :> <<"S", "6">>) @@ (750000 :> <<"S", "7">>) @@ (1000000 :> <<"S", "8">>) @@
    (83300 :> <<"S", "9">>)

\* A method body as the commands it writes in order and the exception it raises itself
\* ("none" when it raises only if a write fails); an exception of its own is raised
\* before any command is written.
Prog(cmds, raise) == [cmds |-> cmds, raise |-> raise]

set_bitrate(bitrate, lo) ==
    IF bitrate \in DOMAIN BITRATES
    THEN Prog(close \o <<BITRATES[bitrate]>> \o open(lo), "none")
    ELSE Prog(<<>>, "ValueError")

\* set_bitrate_reg without its close()
set_bitrate_reg_NoClose(btr, lo) == Prog(<< <<"s">> \o btr >> \o open(lo), "none")

set_bitrate_reg(btr, lo) == Prog(close \o << <<"s">> \o btr >> \o open(lo), "none")

\* nomStr / dataStr of _set_bit_timing_fd
nomStr(timing) ==
    <<"P">> \o ToDec(timing.nom_sjw, 4) \o ToDec(timing.nom_tseg1, 4)
            \o ToDec(timing.nom_tseg2, 4) \o ToDec(timing.nom_brp, 4)
dataStr(timing) ==
    <<"p">> \o ToDec(timing.data_sjw, 4) \o ToDec(timing.data_tseg1, 4)
            \o ToDec(timing.data_tseg2, 4) \o ToDec(timing.data_brp, 4)

\* _set_bit_timing_fd reopening the channel before the data-phase command
set_bit_timing_fd_OpenEarly(timing, lo) ==
    Prog(close \o <<nomStr(timing)>> \o open(lo) \o <<dataStr(timing)>>, "none")

set_bit_timing_fd(timing, lo) ==
    Prog(close \o <<nomStr(timing), dataStr(timing)>> \o open(lo), "none")

\* the second block of __init__ looking at bitrate before it looks at timing
init_setup_BitrateFirst(bitrate, btr, timing, clock_ok, lo) ==
    IF bitrate # None
    THEN LET p == set_bitrate(bitrate[1], lo)
         IN  IF p.raise # "none" THEN p ELSE Prog(p.cmds \o open(lo), "none")
    ELSE IF timing # None /\ timing[1].kind = "BitTiming"
    THEN Prog(set_bitrate_reg(ToHex(timing[1].btr0, 2) \o ToHex(timing[1].btr1, 2), lo).cmds
              \o open(lo), "none")
    ELSE IF timing # None
    THEN Prog(set_bit_timing_fd(timing[1], lo).cmds \o open(lo), "none")
    ELSE IF btr # None THEN Prog(set_bitrate_reg(btr[1], lo).cmds \o open(lo), "none")
    ELSE Prog(open(lo), "none")

\* the body of the second error_check block of __init__ (lines 139-153); clock_ok is
\* the verdict of check_or_adjust_timing_clock on the timing object
init_setup(bitrate, btr, timing, clock_ok, lo) ==
    IF timing # None /\ timing[1].kind = "BitTiming"
    THEN IF ~clock_ok THEN Prog(<<>>, "ValueError")
         ELSE LET t == timing[1]
                  p == set_bitrate_reg(ToHex(t.btr0, 2) \o ToHex(t.btr1, 2), lo)
              IN  Prog(p.cmds \o open(lo), "none")
    ELSE IF timing # None /\ timing[1].kind = "BitTimingFd"
    THEN IF ~clock_ok THEN Prog(<<>>, "ValueError")
         ELSE Prog(set_bit_timing_fd(timing[1], lo).cmds \o open(lo), "none")
    ELSE IF bitrate # None /\ btr # None THEN Prog(<<>>, "ValueError")
    ELSE IF bitrate # None
         THEN LET p == set_bitrate(bitrate[1], lo)
              IN  IF p.raise # "none" THEN p ELSE Prog(p.cmds \o open(lo), "none")
    ELSE IF btr # None THEN Prog(set_bitrate_reg(btr[1], lo).cmds \o open(lo), "none")
    ELSE Prog(open(lo), "none")

\* the session of the adapter as the commands on the wire leave it: the last channel
\* command decides, and an adapter that got none is closed
RECURSIVE Session(_)
Session(w) ==
    IF w = <<>> THEN "Closed"
    ELSE LET c == w[Len(w)][1]
         IN  IF c = "C" THEN "Closed"
             ELSE IF c = "O" THEN "Open-Normal"
             ELSE IF c = "L" THEN "Open-ListenOnly"
             ELSE Session(SubSeq(w, 1, Len(w) - 1))

-----------------------------------------------------------------------------
(* Arguments the specifications draw from *)

\* bitrate arguments: two presets and a rate _BITRATES does not hold
BitrateArgs == {None, Some(500000), Some(83300), Some(12345)}
BtrArgs == {None, Some(<<"0", "3", "1", "C">>)}
ClassicTiming == [kind |-> "BitTiming", btr0 |-> 3, btr1 |-> 28]
FdTiming == [kind |-> "BitTimingFd",
             nom_sjw |-> 1, nom_tseg1 |-> 44, nom_tseg2 |-> 15, nom_brp |-> 1,
             data_sjw |-> 1, data_tseg1 |-> 8, data_tseg2 |-> 3, data_brp |-> 1]
TimingArgs == {None, Some(ClassicTiming), Some(FdTiming)}
ChannelArgs == {"", "COM13"}
TimeoutArgs == {None, Some(1)}

\* 0x123 with two data bytes, classical and FD
StdMsg == Message(291, FALSE, FALSE, FALSE, FALSE, 2, <<222, 173>>)
FdMsg == Message(291, FALSE, FALSE, TRUE, TRUE, 2, <<222, 173>>)
SessionMsgs == {StdMsg, FdMsg}

-----------------------------------------------------------------------------
(* Cyclic send tasks and the list of them the bus keeps *)

\* what a task does with a send that raised: with no on_error callback it stops and
\* lets the exception end its thread, otherwise the callback says whether to go on
OnErrors == {"none", "false", "true"}

\* a task as it is created: stored says whether the bus keeps track of it, attempts
\* are its sends so far, errors counts the calls of its on_error callback
Task(stored, on_error) ==
    [stored |-> stored, on_error |-> on_error, stopped |-> FALSE, stopped_by |-> "none",
     attempts |-> <<>>, errors |-> 0]

InList(list, id) == \E i \in 1..Len(list) : list[i] = id

Without(list, id) == SelectSeq(list, LAMBDA x : x # id)

StopTask(t, by) ==
    IF t.stopped THEN t ELSE [t EXCEPT !.stopped = TRUE, !.stopped_by = by]

\* task.stop() leaving the list of the bus alone
task_stop_KeepsListed(ts, list, id, by) ==
    [tasks |-> [ts EXCEPT ![id] = StopTask(ts[id], by)], periodic_tasks |-> list]

\* task.stop(): the task stops; the stop of a task the bus keeps track of also takes
\* it off the list of the bus
task_stop(ts, list, id, by) ==
    [tasks |-> [ts EXCEPT ![id] = StopTask(ts[id], by)],
     periodic_tasks |-> IF ts[id].stored THEN Without(list, id) ELSE list]

\* stop_all_periodic_tasks(remove_tasks): every task on the list is stopped without
\* being taken off it, then the list is cleared if remove_tasks
stop_all_periodic_tasks(ts, list, remove_tasks) ==
    [tasks |-> [id \in 1..Len(ts) |->
                    IF InList(list, id) THEN StopTask(ts[id], "stop_all") ELSE ts[id]],
     periodic_tasks |-> IF remove_tasks THEN <<>> ELSE list]

\* one period of a task: the outcome of its bus.send(msg) (raised or not, under
\* what conditions) is noted; a send that raised goes to on_error
task_run(ts, list, id, attempt) ==
    LET t == [ts[id] EXCEPT !.attempts = Append(@, attempt)]
        noted == [ts EXCEPT ![id] = t]
        called == [ts EXCEPT ![id] = [t EXCEPT !.errors = @ + 1]]
    IN  IF ~attempt.raised THEN [tasks |-> noted, periodic_tasks |-> list]
        ELSE IF t.on_error = "none" THEN task_stop(noted, list, id, "error")
        ELSE IF t.on_error = "false" THEN task_stop(called, list, id, "error")
        ELSE [tasks |-> called, periodic_tasks |-> list]

-----------------------------------------------------------------------------
(* The state before construction, and the calls *)

Idle == [caller |-> "none", deadline |-> "none", wrote |-> <<>>]

NoCall == [op |-> "none", args |-> <<>>, raised |-> "none", wrote |-> <<>>,
           pre_port |-> "none", result |-> <<>>]

\* the threads that call into the bus concurrently
Threads == {1, 2}

\* a thread that is in no call
IdleThread == [pc |-> "idle", deadline |-> "none", ok_index |-> -1, error_index |-> -1,
               first_marker_index |-> -1, string |-> <<>>, rest |-> <<>>,
               new_bytes |-> <<>>]

\* no cyclic task, no concurrent caller, no lock
NoTasks == tasks = <<>> /\ periodic_tasks = <<>>
NoThreads == thr = [t \in Threads |-> IdleThread] /\ mutex = [used |-> FALSE, holder |-> 0]

Init ==
    /\ NoTasks
    /\ NoThreads
    /\ phase = "new"
    /\ port = "none"
    /\ listen_only = FALSE
    /\ write_timeout = None
    /\ is_shutdown = FALSE
    /\ wire = <<>>
    /\ buffer = <<>>
    /\ rx = <<>>
    /\ pending = <<>>
    /\ stream = <<>>
    /\ sent = <<>>
    /\ rd = Idle
    /\ last = NoCall
    /\ hist = <<>>
    /\ calls = 0

\* __init__: what it raises, the transport it leaves and the lines it wrote.  url_ok
\* says whether serial_for_url succeeds; both error_check blocks turn any exception
\* into CanInitializationError.
init(channel, url_ok, bitrate, btr, timing, clock_ok, lo, at, kind) ==
    IF channel = "" THEN [raised |-> "ValueError", port |-> "none", wrote |-> <<>>]
    ELSE IF ~url_ok
    THEN [raised |-> "CanInitializationError", port |-> "none", wrote |-> <<>>]
    ELSE LET prog == init_setup(bitrate, btr, timing, clock_ok, lo)
             w == WriteSeq("open", prog.cmds, at, kind)
         IN  IF prog.raise # "none"
             THEN [raised |-> "CanInitializationError", port |-> "open", wrote |-> <<>>]
             ELSE [raised |-> IF w.ok THEN "none" ELSE "CanInitializationError",
                   port |-> "open", wrote |-> w.wrote]

Construct(channel, url_ok, bitrate, btr, timing, clock_ok, lo, at, kind) ==
    /\ phase = "new"
    /\ LET r == init(channel, url_ok, bitrate, btr, timing, clock_ok, lo, at, kind)
       IN  /\ phase' = IF r.raised = "none" THEN "up" ELSE "failed"
           /\ port' = r.port
           /\ wire' = wire \o r.wrote
           /\ last' = [op |-> "__init__",
                       args |-> [channel |-> channel, bitrate |-> bitrate, btr |-> btr,
                                 timing |-> timing, listen_only |-> lo],
                       raised |-> r.raised, wrote |-> r.wrote, pre_port |-> port,
                       result |-> <<>>]
    /\ listen_only' = lo
    /\ UNCHANGED <<taskvars, threadvars, write_timeout, is_shutdown, buffer, rx, pending, stream, sent, rd, hist, calls>>

\* a method that only writes commands: the lines reach the wire until a write fails
\* (CanOperationError) or the method raises its own exception
Run(op, args, prog, at, kind) ==
    LET w == IF prog.raise # "none" THEN [wrote |-> <<>>, ok |-> FALSE]
             ELSE WriteSeq(port, prog.cmds, at, kind)
    IN  /\ wire' = wire \o w.wrote
        /\ last' = [op |-> op, args |-> args,
                    raised |-> IF prog.raise # "none" THEN prog.raise
                               ELSE IF w.ok THEN "none" ELSE "CanOperationError",
                    wrote |-> w.wrote, pre_port |-> port, result |-> <<>>]
        /\ calls' = calls + 1

CanCall == phase = "up" /\ rd = Idle /\ calls < MaxCalls

\* send assigning the write-timeout once the command is written
Send_TimeoutAfterWrite(msg, timeout, at, kind) ==
    /\ CanCall
    /\ Run("send", [msg |-> msg, timeout |-> timeout], Prog(<<SendStr(msg)>>, "none"),
           at, kind)
    /\ write_timeout' = IF last'.raised = "none" THEN timeout ELSE write_timeout
    /\ UNCHANGED <<taskvars, threadvars, phase, port, listen_only, is_shutdown, buffer, rx, pending, stream, sent, rd, hist>>

\* send: the write-timeout is assigned (lines 358-359), then the command is written
Send(msg, timeout, at, kind) ==
    /\ CanCall
    /\ write_timeout' = timeout
    /\ Run("send", [msg |-> msg, timeout |-> timeout], Prog(<<SendStr(msg)>>, "none"),
           at, kind)
    /\ UNCHANGED <<taskvars, threadvars, phase, port, listen_only, is_shutdown, buffer, rx, pending, stream, sent, rd, hist>>

Open(at, kind) ==
    /\ CanCall
    /\ Run("open", <<>>, Prog(open(listen_only), "none"), at, kind)
    /\ UNCHANGED <<taskvars, threadvars, phase, port, listen_only, write_timeout, is_shutdown, buffer, rx,
                   pending, stream, sent, rd, hist>>

Close(at, kind) ==
    /\ CanCall
    /\ Run("close", <<>>, Prog(close, "none"), at, kind)
    /\ UNCHANGED <<taskvars, threadvars, phase, port, listen_only, write_timeout, is_shutdown, buffer, rx,
                   pending, stream, sent, rd, hist>>

SetBitrate(bitrate, at, kind) ==
    /\ CanCall
    /\ Run("set_bitrate", bitrate, set_bitrate(bitrate, listen_only), at, kind)
    /\ UNCHANGED <<taskvars, threadvars, phase, port, listen_only, write_timeout, is_shutdown, buffer, rx,
                   pending, stream, sent, rd, hist>>

SetBitrateReg(btr, at, kind) ==
    /\ CanCall
    /\ Run("set_bitrate_reg", btr, set_bitrate_reg(btr, listen_only), at, kind)
    /\ UNCHANGED <<taskvars, threadvars, phase, port, listen_only, write_timeout, is_shutdown, buffer, rx,
                   pending, stream, sent, rd, hist>>

SetBitTimingFd(timing, at, kind) ==
    /\ CanCall
    /\ Run("_set_bit_timing_fd", timing, set_bit_timing_fd(timing, listen_only), at, kind)
    /\ UNCHANGED <<taskvars, threadvars, phase, port, listen_only, write_timeout, is_shutdown, buffer, rx,
                   pending, stream, sent, rd, hist>>

\* shutdown: BusABC.shutdown marks the bus shut down and, the first time, stops the
\* tasks the bus keeps track of; close() writes C, and only if that write did not
\* raise is the transport closed
Shutdown(at, kind) ==
    /\ CanCall
    /\ is_shutdown' = TRUE
    /\ LET st == IF is_shutdown
                 THEN [tasks |-> tasks, periodic_tasks |-> periodic_tasks]
                 ELSE stop_all_periodic_tasks(tasks, periodic_tasks, TRUE)
       IN  tasks' = st.tasks /\ periodic_tasks' = st.periodic_tasks
    /\ Run("shutdown", [was_shutdown |-> is_shutdown], Prog(close, "none"), at, kind)
    /\ port' = IF last'.raised = "none" THEN "closed" ELSE port
    /\ UNCHANGED <<threadvars, phase, listen_only, write_timeout, buffer, rx, pending, stream, sent, rd, hist>>

\* the write that fails in a call, if any: none, or one of the (at most four) writes
FailAt == 0..4

Next ==
    \/ \E channel \in ChannelArgs, url_ok \in BOOLEAN, bitrate \in BitrateArgs,
          btr \in BtrArgs, timing \in TimingArgs, clock_ok \in BOOLEAN,
          lo \in BOOLEAN, at \in 0..5, kind \in WriteKinds :
            Construct(channel, url_ok, bitrate, btr, timing, clock_ok, lo, at, kind)
    \/ \E msg \in SessionMsgs, timeout \in TimeoutArgs, at \in FailAt, kind \in WriteKinds :
            Send(msg, timeout, at, kind)
    \/ \E at \in FailAt, kind \in WriteKinds : Open(at, kind)
    \/ \E at \in FailAt, kind \in WriteKinds : Close(at, kind)
    \/ \E bitrate \in BitrateArgs \ {None}, at \in FailAt, kind \in WriteKinds :
            SetBitrate(bitrate[1], at, kind)
    \/ \E btr \in BtrArgs \ {None}, at \in FailAt, kind \in WriteKinds :
            SetBitrateReg(btr[1], at, kind)
    \/ \E at \in FailAt, kind \in WriteKinds : SetBitTimingFd(FdTiming, at, kind)
    \/ \E at \in FailAt, kind \in WriteKinds : Shutdown(at, kind)

Spec == Init /\ [][Next]_vars

-----------------------------------------------------------------------------
(* The line framer: _read *)

\* bytearray.find(x): the 0-based index of the first x, -1 when there is none
Find(bs, x) ==
    IF \E i \in 1..Len(bs) : bs[i] = x
    THEN (CHOOSE i \in 1..Len(bs) : bs[i] = x /\ \A j \in 1..(i - 1) : bs[j] # x) - 1
    ELSE -1

\* first_marker_index taken as the larger index: the later terminator wins
FirstMarker_Later(ok_index, error_index) ==
    IF ok_index > error_index THEN ok_index ELSE error_index

\* first_marker_index: the smaller of the indexes that were found
FirstMarker(ok_index, error_index) ==
    IF error_index = -1 THEN ok_index
    ELSE IF ok_index = -1 THEN error_index
    ELSE Min(ok_index, error_index)

\* bytes.decode() succeeds: no byte of bs is invalid UTF-8
Decodes(bs) == \A i \in 1..Len(bs) : bs[i] # HI

\* one pass of the body of the while loop of _read, on buffer b with r waiting in the
\* transport: return the first response, raise on an undecodable one (the buffer is
\* not advanced), take in what the transport holds, or sleep
ReadStep(b, r) ==
    LET ok_index == Find(b, CR)
        error_index == Find(b, BEL)
    IN  IF error_index # -1 \/ ok_index # -1
        THEN LET first_marker_index == FirstMarker(ok_index, error_index)
                 head == Slice(b, 0, first_marker_index + 1)
             IN  IF Decodes(head)
                 THEN [kind |-> "return", string |-> head,
                       buffer |-> Slice(b, first_marker_index + 1, Len(b)), rx |-> r]
                 ELSE [kind |-> "raise", string |-> <<>>, buffer |-> b, rx |-> r]
        ELSE IF Len(r) > 0
        THEN [kind |-> "continue", string |-> <<>>, buffer |-> b \o r, rx |-> <<>>]
        ELSE [kind |-> "sleep", string |-> <<>>, buffer |-> b, rx |-> r]

\* serial.Timeout(timeout): unbounded, already expired, or expiring at some later check
Deadline(timeout) ==
    IF timeout = None THEN "none" ELSE IF timeout[1] = 0 THEN "zero" ELSE "finite"

-----------------------------------------------------------------------------
(* The decoder: decode_hex_dlc and _recv_internal, and the query replies *)

\* the value of a digit in the base, -1 when it is none
DigitVal(c, base) ==
    LET up == IF \E i \in 1..6 : LowerHex[i] = c
              THEN HexChars[10 + (CHOOSE i \in 1..6 : LowerHex[i] = c)]
              ELSE c
    IN  IF \E i \in 1..base : HexChars[i] = up
        THEN (CHOOSE i \in 1..base : HexChars[i] = up) - 1
        ELSE -1

\* str.strip() as int() applies it: CR is whitespace, BEL is not
RECURSIVE Strip(_)
Strip(s) ==
    IF s = <<>> THEN s
    ELSE IF Head(s) = CR THEN Strip(Tail(s))
    ELSE IF s[Len(s)] = CR THEN Strip(SubSeq(s, 1, Len(s) - 1))
    ELSE s

RECURSIVE DigitsVal(_, _, _)
DigitsVal(s, base, acc) ==
    IF s = <<>> THEN acc
    ELSE IF DigitVal(Head(s), base) = -1 THEN -1
    ELSE DigitsVal(Tail(s), base, acc * base + DigitVal(Head(s), base))

\* int(s, base): the value, or -1 for ValueError
PyInt(s, base) == IF Strip(s) = <<>> THEN -1 ELSE DigitsVal(Strip(s), base, 0)

\* bytearray.fromhex(s): whitespace between bytes is skipped; anything but pairs of
\* hex digits is a ValueError
RECURSIVE HexPairs(_)
HexPairs(t) ==
    IF t = <<>> THEN <<>>
    ELSE IF Len(t) = 2 THEN <<DigitVal(t[1], 16) * 16 + DigitVal(t[2], 16)>>
    ELSE LET h == 2 * (Len(t) \div 4)
         IN  HexPairs(SubSeq(t, 1, h)) \o HexPairs(SubSeq(t, h + 1, Len(t)))

\* where the run of non-blank characters that holds s[i] starts
RunStart(s, i) ==
    CHOOSE j \in 1..i : (\A k \in j..i : s[k] # CR) /\ (j = 1 \/ s[j - 1] = CR)

FromHex(s) ==
    LET t == SelectSeq(s, LAMBDA c : c # CR)
        ok == /\ \A i \in 1..Len(t) : DigitVal(t[i], 16) # -1
              /\ \A i \in 1..Len(s) :
                    (s[i] # CR /\ (i = Len(s) \/ s[i + 1] = CR))
                        => (i - RunStart(s, i) + 1) % 2 = 0
    IN  IF ok THEN [ok |-> TRUE, val |-> HexPairs(t)] ELSE [ok |-> FALSE, val |-> <<>>]

\* decode_hex_dlc reading the nibble as a plain hex digit
decode_hex_dlc_Linear(hex_dlc) ==
    IF DigitVal(hex_dlc, 16) = -1 THEN 64 ELSE DigitVal(hex_dlc, 16)

\* str.isdigit() of one character
IsDigit(c) == DigitVal(c, 10) # -1 \/ c = SUP2

\* decode_hex_dlc: the length, or -1 for the ValueError of int()
decode_hex_dlc(hex_dlc) ==
    LET num == DigitVal(hex_dlc, 10)
        up == DigitVal(hex_dlc, 16)
    IN  IF IsDigit(hex_dlc)
        THEN IF num = -1 THEN -1
             ELSE IF num <= 8 THEN num
             ELSE IF num = 9 THEN 12
             ELSE 64
        ELSE IF up = 10 THEN 16
        ELSE IF up = 11 THEN 20
        ELSE IF up = 12 THEN 24
        ELSE IF up = 13 THEN 32
        ELSE IF up = 14 THEN 48
        ELSE 64

\* what a call hands back: a message (with the filtered flag), no message, a value,
\* or an exception
RetMsg(m) == [kind |-> "msg", msg |-> m, filtered |-> FALSE, exc |-> "none"]
RetNone == [kind |-> "none", msg |-> <<>>, filtered |-> FALSE, exc |-> "none"]
RetValue(v) == [kind |-> "value", msg |-> v, filtered |-> FALSE, exc |-> "none"]
RetRaise(e) == [kind |-> "raise", msg |-> <<>>, filtered |-> FALSE, exc |-> e]

\* one branch of _recv_internal: the id is string[1:idEnd], the length character is
\* string[idEnd], the data follow it
ParseFrame(string, idEnd, extended, remote, is_fd, bitrate_switch) ==
    LET canId == PyInt(Slice(string, 1, idEnd), 16)
    IN  IF canId = -1 THEN RetRaise("ValueError")
        ELSE IF Len(string) <= idEnd THEN RetRaise("IndexError")
        ELSE LET c == string[idEnd + 1]
                 dlc == IF is_fd THEN decode_hex_dlc(c) ELSE PyInt(<<c>>, 10)
                 data == IF remote THEN [ok |-> TRUE, val |-> <<>>]
                         ELSE FromHex(Slice(string, idEnd + 1, idEnd + 1 + dlc * 2))
             IN  IF dlc = -1 THEN RetRaise("ValueError")
                 ELSE IF ~data.ok THEN RetRaise("ValueError")
                 ELSE RetMsg(Message(canId, extended, remote, is_fd, bitrate_switch,
                                     dlc, data.val))

\* _recv_internal taking the adapter's error response (BEL) for a failure to report
recv_internal_ErrorRaises(string) ==
    IF string = None THEN RetNone
    ELSE IF string[1][1] = BEL THEN RetRaise("CanOperationError")
    ELSE IF string[1][1] = "t" THEN ParseFrame(string[1], 4, FALSE, FALSE, FALSE, FALSE)
    ELSE RetNone

\* _recv_internal after its _read returned string (None: no response)
recv_internal(string) ==
    IF string = None THEN RetNone
    ELSE LET str == string[1]
             c == str[1]
         IN  IF c = "T" \/ c = "x" THEN ParseFrame(str, 9, TRUE, FALSE, FALSE, FALSE)
             ELSE IF c = "t" THEN ParseFrame(str, 4, FALSE, FALSE, FALSE, FALSE)
             ELSE IF c = "r" THEN ParseFrame(str, 4, FALSE, TRUE, FALSE, FALSE)
             ELSE IF c = "R" THEN ParseFrame(str, 9, TRUE, TRUE, FALSE, FALSE)
             ELSE IF c = "d" THEN ParseFrame(str, 4, FALSE, FALSE, TRUE, FALSE)
             ELSE IF c = "D" THEN ParseFrame(str, 9, TRUE, FALSE, TRUE, FALSE)
             ELSE IF c = "b" THEN ParseFrame(str, 4, FALSE, FALSE, TRUE, TRUE)
             ELSE IF c = "B" THEN ParseFrame(str, 9, TRUE, FALSE, TRUE, TRUE)
             ELSE RetNone

\* get_version after its _read returned string
get_version_reply(string) ==
    IF string = None THEN RetNone
    ELSE LET str == string[1]
         IN  IF str[1] = "V" /\ Len(str) = 6
             THEN LET hw == PyInt(Slice(str, 1, 3), 10)
                      sw == PyInt(Slice(str, 3, 5), 10)
                  IN  IF hw = -1 \/ sw = -1 THEN RetRaise("ValueError")
                      ELSE RetValue(<<hw, sw>>)
             ELSE RetNone

\* get_serial_number after its _read returned string
get_serial_number_reply(string) ==
    IF string = None THEN RetNone
    ELSE LET str == string[1]
         IN  IF str[1] = "N" /\ Len(str) = 6
             THEN RetValue(Slice(str, 1, Len(str) - 1))
             ELSE RetNone

\* what the caller of _read makes of the string it got
Continue(caller, string) ==
    IF caller = "recv" THEN recv_internal(string)
    ELSE IF caller = "get_version" THEN get_version_reply(string)
    ELSE IF caller = "get_serial_number" THEN get_serial_number_reply(string)
    ELSE IF string = None THEN RetNone ELSE RetValue(string[1])

-----------------------------------------------------------------------------
(* Reading: the transport delivers bytes while _read, recv or a query polls *)

\* the transport takes in the next k bytes from the adapter
Arrive(k) ==
    /\ port = "open"
    /\ k \in 1..Len(pending)
    /\ rx' = rx \o SubSeq(pending, 1, k)
    /\ pending' = SubSeq(pending, k + 1, Len(pending))
    /\ UNCHANGED <<taskvars, threadvars, phase, port, listen_only, write_timeout, is_shutdown, wire, buffer,
                   stream, sent, rd, last, hist, calls>>

CanRead == phase = "up" /\ port = "open" /\ rd = Idle /\ calls < MaxReads

\* _read(timeout) or recv(timeout) is entered
ReadCall(caller, timeout) ==
    /\ CanRead
    /\ rd' = [caller |-> caller, deadline |-> Deadline(timeout), wrote |-> <<>>]
    /\ calls' = calls + 1
    /\ UNCHANGED <<taskvars, threadvars, phase, port, listen_only, write_timeout, is_shutdown, wire, buffer,
                   rx, pending, stream, sent, last, hist>>

\* the command a query writes
QueryCmd(caller) == IF caller = "get_version" THEN <<"V">> ELSE <<"N">>

\* the adapter's reply to a query command
Reply(cmd) == IF cmd = <<"V">> THEN <<"V", "1", "2", "3", "4", CR>>
              ELSE <<"N", "A", "1", "B", "2", CR>>

\* what adapters answer to a query command: the reply, a version in hex digits, a
\* reply cut short, the error response
Replies(cmd) ==
    IF cmd = <<"V">>
    THEN {Reply(cmd), <<"V", "1", "A", "3", "B", CR>>, <<"V", "1", "2", CR>>, <<BEL>>}
    ELSE {Reply(cmd), <<"N", "A", "1", CR>>, <<BEL>>}

\* get_version(timeout) or get_serial_number(timeout) is entered: the command is
\* written, and the read starts unless the write raised.  The adapter answers a
\* command that reached it with answer; its reply joins the inbound stream after the
\* first k of the bytes still to come (the frames it reports before the reply).
QueryCall(caller, timeout, at, kind, k, answer) ==
    /\ CanRead
    /\ k = 0 \/ (k \in 1..Len(pending) /\ (pending[k] = CR \/ pending[k] = BEL))
    /\ LET cmd == QueryCmd(caller)
           w == WriteSeq(port, <<cmd>>, at, kind)
           reply == IF w.wrote = <<>> THEN <<>> ELSE answer
       IN  /\ wire' = wire \o w.wrote
           /\ pending' = SubSeq(pending, 1, k) \o reply \o SubSeq(pending, k + 1, Len(pending))
           /\ stream' = SubSeq(stream, 1, Len(stream) - Len(pending)) \o pending'
           /\ IF w.ok
              THEN /\ rd' = [caller |-> caller, deadline |-> Deadline(timeout),
                             wrote |-> w.wrote]
                   /\ UNCHANGED last
              ELSE /\ rd' = Idle
                   /\ last' = [op |-> caller, args |-> Deadline(timeout),
                               raised |-> "CanOperationError", wrote |-> w.wrote,
                               pre_port |-> port, result |-> RetRaise("CanOperationError")]
    /\ calls' = calls + 1
    /\ UNCHANGED <<taskvars, threadvars, phase, port, listen_only, write_timeout, is_shutdown, buffer, rx,
                   sent, hist>>

\* _read is over (string: what it returned, exc: what it raised) and its caller
\* finishes with it
Finish(string, exc) ==
    LET res == IF exc # "none" THEN RetRaise(exc) ELSE Continue(rd.caller, string)
    IN  /\ hist' = Append(hist, [caller |-> rd.caller, deadline |-> rd.deadline,
                                 ret |-> string, result |-> res])
        /\ last' = [op |-> rd.caller, args |-> rd.deadline, raised |-> res.exc,
                    wrote |-> rd.wrote, pre_port |-> port, result |-> res]
        /\ rd' = Idle

\* the loop test finds the deadline passed: at once for a zero timeout, at any test
\* for a finite one, never for None
ReadExpire ==
    /\ rd.caller # "none"
    /\ rd.deadline \in {"zero", "finite"}
    /\ Finish(None, "none")
    /\ UNCHANGED <<taskvars, threadvars, phase, port, listen_only, write_timeout, is_shutdown, wire, buffer,
                   rx, pending, stream, sent, calls>>

\* a pass of the loop that takes in the bytes waiting in the transport
ReadPoll ==
    /\ rd.caller # "none"
    /\ rd.deadline # "zero"
    /\ ReadStep(buffer, rx).kind = "continue"
    /\ buffer' = ReadStep(buffer, rx).buffer
    /\ rx' = ReadStep(buffer, rx).rx
    /\ UNCHANGED <<taskvars, threadvars, phase, port, listen_only, write_timeout, is_shutdown, wire, pending,
                   stream, sent, rd, last, hist, calls>>

\* a pass of the loop that finds a terminator in the buffer: the response is returned,
\* or decoding it raises (error_check makes that a CanOperationError)
ReadFinish ==
    /\ rd.caller # "none"
    /\ rd.deadline # "zero"
    /\ LET st == ReadStep(buffer, rx)
       IN  /\ st.kind \in {"return", "raise"}
           /\ buffer' = st.buffer
           /\ IF st.kind = "return" THEN Finish(Some(st.string), "none")
              ELSE Finish(None, "CanOperationError")
    /\ UNCHANGED <<taskvars, threadvars, phase, port, listen_only, write_timeout, is_shutdown, wire, rx,
                   pending, stream, sent, calls>>

\* the adapter reports the frame just sent as a received frame: the command line of
\* the last send comes back on the inbound stream
Loopback ==
    /\ last.op = "send"
    /\ last.raised = "none"
    /\ pending' = pending \o last.wrote[1]
    /\ stream' = stream \o last.wrote[1]
    /\ sent' = Append(sent, last.args.msg)
    /\ last' = [last EXCEPT !.op = "loopback"]
    /\ UNCHANGED <<taskvars, threadvars, phase, port, listen_only, write_timeout, is_shutdown, wire, buffer,
                   rx, rd, hist, calls>>

\* flush() leaving the transport's input as it is
flush_KeepsTransport(b, r, ok) ==
    [buffer |-> <<>>, rx |-> r, raised |-> IF ok THEN "none" ELSE "CanOperationError"]

\* flush(): the framer buffer is cleared, then the transport's input is reset unless
\* reset_input_buffer raises (ok is false), which error_check reports as
\* CanOperationError
flush(b, r, ok) ==
    [buffer |-> <<>>, rx |-> IF ok THEN <<>> ELSE r,
     raised |-> IF ok THEN "none" ELSE "CanOperationError"]

\* flush() is called between reads; reset_ok says whether the transport lets its
\* input be reset.  The entry in hist keeps the bytes that were in the buffer and in
\* the transport when it was called.
Flush(reset_ok) ==
    /\ phase = "up"
    /\ rd = Idle
    /\ Len(SelectSeq(hist, LAMBDA h : h.caller = "flush")) < MaxFlushes
    /\ LET f == flush(buffer, rx, reset_ok /\ port = "open")
           res == IF f.raised = "none" THEN RetNone ELSE RetRaise(f.raised)
       IN  /\ buffer' = f.buffer
           /\ rx' = f.rx
           /\ hist' = Append(hist, [caller |-> "flush", deadline |-> "none", ret |-> None,
                                    result |-> res, inbuf |-> buffer, intransport |-> rx])
           /\ last' = [op |-> "flush", args |-> <<>>, raised |-> f.raised, wrote |-> <<>>,
                       pre_port |-> port, result |-> res]
    /\ UNCHANGED <<taskvars, threadvars, phase, port, listen_only, write_timeout, is_shutdown, wire, pending,
                   stream, sent, rd, calls>>

\* a bus that was constructed with no bitrate and no timing, and the bytes the
\* adapter is going to deliver to it
InitBus(streams) ==
    /\ phase = "up"
    /\ port = "open"
    /\ listen_only = FALSE
    /\ write_timeout = None
    /\ is_shutdown = FALSE
    /\ wire = << <<"O", CR>> >>
    /\ buffer = <<>>
    /\ rx = <<>>
    /\ pending \in streams
    /\ stream = pending
    /\ sent = <<>>
    /\ rd = Idle
    /\ last = [op |-> "__init__",
               args |-> [channel |-> "COM13", bitrate |-> None, btr |-> None,
                         timing |-> None, listen_only |-> FALSE],
               raised |-> "none", wrote |-> << <<"O", CR>> >>, pre_port |-> "none",
               result |-> <<>>]
    /\ hist = <<>>
    /\ calls = 0

InitUp(streams) == InitBus(streams) /\ NoTasks /\ NoThreads

-----------------------------------------------------------------------------
(* The framer specification: any byte stream, in any chunking, read by _read *)

\* a data byte, the two terminators and a byte that does not decode
FramerBytes == {"t", CR, BEL, HI}

RECURSIVE SeqsUpTo(_, _)
SeqsUpTo(S, n) ==
    IF n = 0 THEN {<<>>}
    ELSE LET shorter == SeqsUpTo(S, n - 1)
         IN  shorter \cup {Append(q, x) : q \in {r \in shorter : Len(r) = n - 1}, x \in S}

ReadTimeouts == {None, Some(0), Some(1)}

InitFramer == InitUp(SeqsUpTo(FramerBytes, MaxStream))

NextFramer ==
    \/ \E k \in 1..Len(pending) : Arrive(k)
    \/ \E timeout \in ReadTimeouts : ReadCall("_read", timeout)
    \/ ReadPoll
    \/ ReadFinish
    \/ ReadExpire

SpecFramer == InitFramer /\ [][NextFramer]_vars

\* The framer with its scheduling: the thread that called _read keeps running, so a
\* pass of the poll loop that can be made is made (ReadPoll, ReadFinish); time goes
\* by, so a deadline that is not None is found expired at some loop test
\* (ReadExpire); and the adapter delivers the bytes it has to deliver (Arrive).
SpecFramerLive ==
    /\ InitFramer
    /\ [][NextFramer]_vars
    /\ WF_vars(ReadPoll)
    /\ WF_vars(ReadFinish)
    /\ WF_vars(ReadExpire)
    /\ WF_vars(\E k \in 1..Len(pending) : Arrive(k))

-----------------------------------------------------------------------------
(* The receive specification: a stream of response units, read by recv and the queries *)

\* t1231AB: standard id 0x123, one data byte
FrameUnit == <<"t", "1", "2", "3", "1", "A", "B", CR>>
\* the acknowledgement of a command and the adapter's error response
AckUnit == <<CR>>
ErrorUnit == <<BEL>>
\* frames cut short or garbled on the line
TruncatedUnit == <<"t", "1", "2", CR>>
NonHexUnit == <<"t", "G", "2", "3", "0", CR>>
ShortDataUnit == <<"t", "1", "2", "3", "2", "A", "B", CR>>

Units == {FrameUnit, AckUnit, ErrorUnit,
          TruncatedUnit, NonHexUnit, ShortDataUnit}

UnitStreams == {Concat(us) : us \in SeqsUpTo(Units, MaxUnits)}

InitRecv == InitUp(UnitStreams)

\* recv and the queries are called with no timeout or with a finite one
RecvTimeouts == {None, Some(1)}

\* the transport takes in whole responses
NextRecv ==
    \/ \E k \in 1..Len(pending) : (pending[k] = CR \/ pending[k] = BEL) /\ Arrive(k)
    \/ \E timeout \in RecvTimeouts : ReadCall("recv", timeout)
    \/ \E caller \in {"get_version", "get_serial_number"}, timeout \in RecvTimeouts,
          at \in {0, 1}, kind \in WriteKinds, k \in {0, Len(pending)} :
            QueryCall(caller, timeout, at, kind, k, Reply(QueryCmd(caller)))
    \/ ReadPoll
    \/ ReadFinish
    \/ ReadExpire

SpecRecv == InitRecv /\ [][NextRecv]_vars

-----------------------------------------------------------------------------
(* The codec specification: a message is sent, the adapter reports the same frame
   back, and recv decodes it *)

\* the payload sizes CAN FD carries
CanonicalLengths == (0..8) \cup {12, 16, 20, 24, 32, 48, FdMax}

\* n data bytes, all different from their neighbours
DataOf(n, first) == [i \in 1..n |-> (first + 29 * i) % 256]
DataFirsts == {0, 171}

\* 0x000, 0x123, 0x7FF as standard ids; 0x123, 0x18FF50E5, 0x1FFFFFFF as extended ids
StdIds == {0, 291, 2047}
ExtIds == {291, 419385573, 536870911}
Ids == {[id |-> i, ext |-> FALSE] : i \in StdIds} \cup {[id |-> i, ext |-> TRUE] : i \in ExtIds}

ClassicalMsgs ==
    {Message(a.id, a.ext, FALSE, FALSE, FALSE, n, DataOf(n, f)) :
        a \in Ids, n \in 0..8, f \in DataFirsts}
RemoteMsgs ==
    {Message(a.id, a.ext, TRUE, FALSE, FALSE, n, <<>>) : a \in Ids, n \in 0..8}
FdMsgs ==
    {Message(a.id, a.ext, FALSE, TRUE, brs, n, DataOf(n, f)) :
        a \in Ids, brs \in BOOLEAN, n \in CanonicalLengths, f \in DataFirsts}
\* FD messages whose dlc is no canonical length or is not the length of the data
OddFdMsgs ==
    {Message(a.id, a.ext, FALSE, TRUE, brs, d[1], DataOf(d[2], 171)) :
        a \in Ids, brs \in BOOLEAN, d \in {<<9, 9>>, <<64, 10>>, <<70, 10>>, <<10, 3>>}}

CodecMsgs == ClassicalMsgs \cup RemoteMsgs \cup FdMsgs \cup OddFdMsgs

InitCodec == InitUp({<<>>})

NextCodec ==
    \/ \E msg \in CodecMsgs : calls = 0 /\ Send(msg, None, 0, "write_error")
    \/ Loopback
    \/ pending # <<>> /\ Arrive(Len(pending))
    \/ sent # <<>> /\ ReadCall("recv", None)
    \/ ReadPoll
    \/ ReadFinish

SpecCodec == InitCodec /\ [][NextCodec]_vars

-----------------------------------------------------------------------------
(* The flush specification: a byte stream in any chunking, read by _read, with
   flush called between reads *)

FlushBytes == {"t", CR, BEL}

InitFlush == InitUp(SeqsUpTo(FlushBytes, MaxStream))

NextFlush ==
    \/ \E k \in 1..Len(pending) : Arrive(k)
    \/ \E timeout \in ReadTimeouts : ReadCall("_read", timeout)
    \/ ReadPoll
    \/ ReadFinish
    \/ ReadExpire
    \/ \E reset_ok \in BOOLEAN : Flush(reset_ok)

SpecFlush == InitFlush /\ [][NextFlush]_vars

-----------------------------------------------------------------------------
(* The call specification: sends, channel and bit-rate commands, queries, recv and
   flush on one bus, in any order *)

InitIO == InitUp({<<>>})

\* the write that fails in a call of the call specification: none, or the first
IOFailAt == {0, 1}

NextIO ==
    \/ \E msg \in SessionMsgs, timeout \in TimeoutArgs, at \in IOFailAt, kind \in WriteKinds :
            Send(msg, timeout, at, kind)
    \/ \E at \in IOFailAt, kind \in WriteKinds : Open(at, kind)
    \/ \E at \in IOFailAt, kind \in WriteKinds : Close(at, kind)
    \/ \E bitrate \in BitrateArgs \ {None}, at \in IOFailAt, kind \in WriteKinds :
            SetBitrate(bitrate[1], at, kind)
    \/ \E btr \in BtrArgs \ {None}, at \in IOFailAt, kind \in WriteKinds :
            SetBitrateReg(btr[1], at, kind)
    \/ \E at \in IOFailAt, kind \in WriteKinds : SetBitTimingFd(FdTiming, at, kind)
    \/ \E caller \in {"get_version", "get_serial_number"}, timeout \in RecvTimeouts,
          at \in {0, 1}, kind \in WriteKinds, k \in {0, Len(pending)} :
            \E answer \in Replies(QueryCmd(caller)) :
                QueryCall(caller, timeout, at, kind, k, answer)
    \/ \E timeout \in RecvTimeouts : ReadCall("recv", timeout)
    \/ \E k \in 1..Len(pending) : (pending[k] = CR \/ pending[k] = BEL) /\ Arrive(k)
    \/ ReadPoll
    \/ ReadFinish
    \/ ReadExpire
    \/ \E reset_ok \in BOOLEAN : Flush(reset_ok)

SpecIO == InitIO /\ [][NextIO]_vars

-----------------------------------------------------------------------------
(* The task specification: cyclic send tasks are made by send_periodic on a
   constructed bus, run, are stopped one by one or all together, and the bus is shut
   down *)

\* a call on the tasks that returned: it writes nothing itself
Did(op, args) ==
    [op |-> op, args |-> args, raised |-> "none", wrote |-> <<>>, pre_port |-> port,
     result |-> <<>>]

\* bus.send_periodic(msg, period, store_task = store_task)
SendPeriodic(store_task) ==
    /\ phase = "up"
    /\ Len(tasks) < MaxTasks
    /\ tasks' = Append(tasks, Task(store_task, "none"))
    /\ periodic_tasks' = IF store_task THEN Append(periodic_tasks, Len(tasks) + 1)
                         ELSE periodic_tasks
    /\ last' = Did("send_periodic", store_task)
    /\ UNCHANGED <<threadvars, phase, port, listen_only, write_timeout, is_shutdown, wire,
                   buffer, rx, pending, stream, sent, rd, hist, calls>>

\* ThreadBasedCyclicSendTask(bus, lock, msg, period, on_error = on_error): a task the
\* caller makes itself, which the bus does not keep track of
CreateTask(on_error) ==
    /\ phase = "up"
    /\ Len(tasks) < MaxTasks
    /\ tasks' = Append(tasks, Task(FALSE, on_error))
    /\ last' = Did("ThreadBasedCyclicSendTask", on_error)
    /\ UNCHANGED <<periodic_tasks, threadvars, phase, port, listen_only, write_timeout,
                   is_shutdown, wire, buffer, rx, pending, stream, sent, rd, hist, calls>>

\* task.stop() on a task that runs or is on the list
TaskStop(id) ==
    /\ id \in 1..Len(tasks)
    /\ ~tasks[id].stopped \/ InList(periodic_tasks, id)
    /\ LET st == task_stop(tasks, periodic_tasks, id, "stop")
       IN  tasks' = st.tasks /\ periodic_tasks' = st.periodic_tasks
    /\ last' = Did("task.stop", id)
    /\ UNCHANGED <<threadvars, phase, port, listen_only, write_timeout, is_shutdown, wire,
                   buffer, rx, pending, stream, sent, rd, hist, calls>>

\* bus.stop_all_periodic_tasks(remove_tasks)
StopAllPeriodicTasks(remove_tasks) ==
    /\ phase = "up"
    /\ periodic_tasks # <<>>
    /\ LET st == stop_all_periodic_tasks(tasks, periodic_tasks, remove_tasks)
       IN  tasks' = st.tasks /\ periodic_tasks' = st.periodic_tasks
    /\ last' = Did("stop_all_periodic_tasks", remove_tasks)
    /\ UNCHANGED <<threadvars, phase, port, listen_only, write_timeout, is_shutdown, wire,
                   buffer, rx, pending, stream, sent, rd, hist, calls>>

\* the sends made by all the tasks together
Ticks ==
    LET RECURSIVE sum(_)
        sum(n) == IF n = 0 THEN 0 ELSE Len(tasks[n].attempts) + sum(n - 1)
    IN  sum(Len(tasks))

\* a period of a running task comes round: the task thread calls bus.send(msg); the
\* transport fails the write if at is 1
TaskRun(id, at) ==
    /\ id \in 1..Len(tasks)
    /\ ~tasks[id].stopped
    /\ Ticks < MaxTicks
    /\ write_timeout' = None
    /\ LET w == WriteSeq(port, <<SendStr(StdMsg)>>, at, "write_error")
           st == task_run(tasks, periodic_tasks, id,
                          [shut |-> is_shutdown, open |-> port = "open",
                           fault |-> at = 1, raised |-> ~w.ok])
       IN  /\ wire' = wire \o w.wrote
           /\ last' = [op |-> "send", args |-> [msg |-> StdMsg, timeout |-> None],
                       raised |-> IF w.ok THEN "none" ELSE "CanOperationError",
                       wrote |-> w.wrote, pre_port |-> port, result |-> <<>>]
           /\ tasks' = st.tasks
           /\ periodic_tasks' = st.periodic_tasks
    /\ UNCHANGED <<threadvars, phase, port, listen_only, is_shutdown, buffer, rx, pending,
                   stream, sent, rd, hist, calls>>

InitTasks == InitUp({<<>>})

NextTasks ==
    \/ \E store_task \in BOOLEAN : SendPeriodic(store_task)
    \/ \E id \in 1..MaxTasks : TaskStop(id)
    \/ \E remove_tasks \in BOOLEAN : StopAllPeriodicTasks(remove_tasks)
    \/ \E id \in 1..MaxTasks, at \in IOFailAt : TaskRun(id, at)
    \/ \E at \in IOFailAt, kind \in WriteKinds : Shutdown(at, kind)

SpecTasks == InitTasks /\ [][NextTasks]_vars

-----------------------------------------------------------------------------
(* The cyclic-send specification: tasks with an on_error callback are made by the
   caller on a constructed bus and run while the bus is up and after its shutdown *)

InitCyclic == InitUp({<<>>})

NextCyclic ==
    \/ \E on_error \in OnErrors \ {"none"} : CreateTask(on_error)
    \/ \E id \in 1..MaxTasks : TaskStop(id)
    \/ \E id \in 1..MaxTasks, at \in IOFailAt : TaskRun(id, at)
    \/ \E at \in IOFailAt, kind \in WriteKinds : Shutdown(at, kind)

SpecCyclic == InitCyclic /\ [][NextCyclic]_vars

-----------------------------------------------------------------------------
(* The concurrent-read specification: two threads call _read on one bus, each
   statement of _read a step of its own, with and without a lock around the call *)

\* the rest of the buffer after the response that ends at first_marker_index
Rest_KeepsMarker(b, first_marker_index) == Slice(b, first_marker_index, Len(b))

Rest(b, first_marker_index) == Slice(b, first_marker_index + 1, Len(b))

\* thread t may enter a call: it is in none, and the lock, if one is in use, is free
CanEnter(t) ==
    /\ phase = "up"
    /\ port = "open"
    /\ thr[t].pc = "idle"
    /\ calls < MaxReads
    /\ mutex.used => mutex.holder = 0

\* thread t enters _read(timeout), taking the lock if one is in use
ThreadEnter(t, timeout) ==
    /\ CanEnter(t)
    /\ thr' = [thr EXCEPT ![t] = [IdleThread EXCEPT !.pc = "find_ok",
                                                    !.deadline = Deadline(timeout)]]
    /\ mutex' = IF mutex.used THEN [mutex EXCEPT !.holder = t] ELSE mutex
    /\ calls' = calls + 1
    /\ UNCHANGED <<taskvars, phase, port, listen_only, write_timeout, is_shutdown, wire,
                   buffer, rx, pending, stream, sent, rd, last, hist>>

\* the call of thread t is over: what it returned or raised is noted, its locals are
\* gone, the lock is released
ThreadLeave(t, string, exc) ==
    /\ hist' = Append(hist, [caller |-> "_read", deadline |-> thr[t].deadline,
                             ret |-> string,
                             result |-> IF exc # "none" THEN RetRaise(exc)
                                        ELSE Continue("_read", string),
                             thread |-> t])
    /\ thr' = [thr EXCEPT ![t] = IdleThread]
    /\ mutex' = IF mutex.used THEN [mutex EXCEPT !.holder = 0] ELSE mutex

\* the loop test of thread t finds its deadline passed
ThreadExpire(t) ==
    /\ thr[t].pc = "find_ok"
    /\ thr[t].deadline = "finite"
    /\ ThreadLeave(t, None, "none")
    /\ UNCHANGED <<taskvars, phase, port, listen_only, write_timeout, is_shutdown, wire,
                   buffer, rx, pending, stream, sent, rd, last, calls>>

\* ok_index = self._buffer.find(OK)
ThreadFindOk(t) ==
    /\ thr[t].pc = "find_ok"
    /\ thr' = [thr EXCEPT ![t].ok_index = Find(buffer, CR), ![t].pc = "find_error"]
    /\ UNCHANGED <<taskvars, mutex, phase, port, listen_only, write_timeout, is_shutdown,
                   wire, buffer, rx, pending, stream, sent, rd, last, hist, calls>>

\* error_index = self._buffer.find(ERROR), the test on the two indices, and
\* first_marker_index
ThreadFindError(t) ==
    /\ thr[t].pc = "find_error"
    /\ LET error_index == Find(buffer, BEL)
           ok_index == thr[t].ok_index
       IN  thr' = [thr EXCEPT
                     ![t].error_index = error_index,
                     ![t].first_marker_index =
                         IF ok_index # -1 \/ error_index # -1
                         THEN FirstMarker(ok_index, error_index) ELSE -1,
                     ![t].pc = IF ok_index # -1 \/ error_index # -1
                               THEN "slice" ELSE "poll"]
    /\ UNCHANGED <<taskvars, mutex, phase, port, listen_only, write_timeout, is_shutdown,
                   wire, buffer, rx, pending, stream, sent, rd, last, hist, calls>>

\* string = self._buffer[: first_marker_index + 1].decode(), on the buffer as it is now
ThreadSlice(t) ==
    /\ thr[t].pc = "slice"
    /\ LET head == Slice(buffer, 0, thr[t].first_marker_index + 1)
       IN  IF Decodes(head)
           THEN /\ thr' = [thr EXCEPT ![t].string = head, ![t].pc = "cut"]
                /\ UNCHANGED <<mutex, hist>>
           ELSE ThreadLeave(t, None, "CanOperationError")
    /\ UNCHANGED <<taskvars, phase, port, listen_only, write_timeout, is_shutdown, wire,
                   buffer, rx, pending, stream, sent, rd, last, calls>>

\* the right-hand side of self._buffer = self._buffer[first_marker_index + 1 :]
ThreadCut(t) ==
    /\ thr[t].pc = "cut"
    /\ thr' = [thr EXCEPT ![t].rest = Rest(buffer, thr[t].first_marker_index),
                          ![t].pc = "store"]
    /\ UNCHANGED <<taskvars, mutex, phase, port, listen_only, write_timeout, is_shutdown,
                   wire, buffer, rx, pending, stream, sent, rd, last, hist, calls>>

\* the assignment to self._buffer, and return string
ThreadStore(t) ==
    /\ thr[t].pc = "store"
    /\ buffer' = thr[t].rest
    /\ ThreadLeave(t, Some(thr[t].string), "none")
    /\ UNCHANGED <<taskvars, phase, port, listen_only, write_timeout, is_shutdown, wire,
                   rx, pending, stream, sent, rd, last, calls>>

\* in_waiting and serialPortOrig.read(size=in_waiting); with nothing waiting the
\* thread sleeps and comes back to the loop test
ThreadPoll(t) ==
    /\ thr[t].pc = "poll"
    /\ thr' = [thr EXCEPT ![t].new_bytes = rx,
                          ![t].pc = IF Len(rx) > 0 THEN "extend" ELSE "find_ok"]
    /\ rx' = <<>>
    /\ UNCHANGED <<taskvars, mutex, phase, port, listen_only, write_timeout, is_shutdown,
                   wire, buffer, pending, stream, sent, rd, last, hist, calls>>

\* self._buffer.extend(new_bytes)
ThreadExtend(t) ==
    /\ thr[t].pc = "extend"
    /\ buffer' = buffer \o thr[t].new_bytes
    /\ thr' = [thr EXCEPT ![t].new_bytes = <<>>, ![t].pc = "find_ok"]
    /\ UNCHANGED <<taskvars, mutex, phase, port, listen_only, write_timeout, is_shutdown,
                   wire, rx, pending, stream, sent, rd, last, hist, calls>>

RaceBytes == {"t", CR, BEL}

\* a constructed bus, the bytes the adapter is going to deliver, and whether the
\* callers put a lock around their calls
InitRace ==
    /\ InitBus(SeqsUpTo(RaceBytes, MaxStream))
    /\ NoTasks
    /\ thr = [t \in Threads |-> IdleThread]
    /\ mutex \in {[used |-> u, holder |-> 0] : u \in BOOLEAN}

NextRace ==
    \/ \E k \in 1..Len(pending) : Arrive(k)
    \/ \E t \in Threads, timeout \in {None, Some(1)} : ThreadEnter(t, timeout)
    \/ \E t \in Threads : ThreadExpire(t)
    \/ \E t \in Threads : ThreadFindOk(t)
    \/ \E t \in Threads : ThreadFindError(t)
    \/ \E t \in Threads : ThreadSlice(t)
    \/ \E t \in Threads : ThreadCut(t)
    \/ \E t \in Threads : ThreadStore(t)
    \/ \E t \in Threads : ThreadPoll(t)
    \/ \E t \in Threads : ThreadExtend(t)

SpecRace == InitRace /\ [][NextRace]_vars

-----------------------------------------------------------------------------
(* The length-code specification: encode_dlc_hex and decode_hex_dlc are applied to
   lengths and to characters *)

\* lengths from below 0 to beyond 64
DlcLengths == (0 - 8)..(FdMax + 16)

\* the hex digits in both cases, letters that are none, the terminators and the
\* digit that is no decimal
DlcChars ==
    {HexChars[i] : i \in 1..16} \cup {LowerHex[i] : i \in 1..6}
        \cup {"G", "g", "t", "x", CR, BEL, SUP2}

EncodeDlc(n) ==
    /\ last' = [op |-> "encode_dlc_hex", args |-> n, raised |-> "none", wrote |-> <<>>,
                pre_port |-> port, result |-> encode_dlc_hex(n)]
    /\ UNCHANGED <<taskvars, threadvars, phase, port, listen_only, write_timeout, is_shutdown, wire, buffer,
                   rx, pending, stream, sent, rd, hist, calls>>

DecodeDlc(c) ==
    /\ last' = [op |-> "decode_hex_dlc", args |-> c,
                raised |-> IF decode_hex_dlc(c) = -1 THEN "ValueError" ELSE "none",
                wrote |-> <<>>, pre_port |-> port, result |-> decode_hex_dlc(c)]
    /\ UNCHANGED <<taskvars, threadvars, phase, port, listen_only, write_timeout, is_shutdown, wire, buffer,
                   rx, pending, stream, sent, rd, hist, calls>>

InitDlc == InitUp({<<>>})

NextDlc ==
    \/ \E n \in DlcLengths : EncodeDlc(n)
    \/ \E c \in DlcChars : DecodeDlc(c)

SpecDlc == InitDlc /\ [][NextDlc]_vars

-----------------------------------------------------------------------------
(* Properties of the session specification *)

\* the wire as the last call found it
PreWire == SubSeq(wire, 1, Len(wire) - Len(last.wrote))

IsConfigLine(l) == l[1] \in {"S", "s", "P", "p"}
IsChannelLine(l) == l[1] \in {"C", "O", "L"}
IsDataLine(l) == l[1] \in {"t", "T", "r", "R", "d", "D", "b", "B"}

\* the last channel command of w, "none" if it has none
RECURSIVE LastChannel(_)
LastChannel(w) ==
    IF w = <<>> THEN "none"
    ELSE IF IsChannelLine(w[Len(w)]) THEN w[Len(w)][1]
    ELSE LastChannel(SubSeq(w, 1, Len(w) - 1))

C2_IdempotentShutdown ==
    (last.op = "shutdown" /\ last.args.was_shutdown /\ last.pre_port = "closed")
        => (last.raised = "none" /\ last.wrote = <<>>)

\* the configuration lines the constructor arguments select
ExpectedConfig(a) ==
    IF a.timing = Some(ClassicTiming) THEN << <<"s", "0", "3", "1", "C", CR>> >>
    ELSE IF a.timing = Some(FdTiming)
    THEN << <<"P", "0", "0", "0", "1", "0", "0", "4", "4",
              "0", "0", "1", "5", "0", "0", "0", "1", CR>>,
            <<"p", "0", "0", "0", "1", "0", "0", "0", "8",
              "0", "0", "0", "3", "0", "0", "0", "1", CR>> >>
    ELSE IF a.bitrate = Some(500000) THEN << <<"S", "6", CR>> >>
    ELSE IF a.bitrate = Some(83300) THEN << <<"S", "9", CR>> >>
    ELSE IF a.btr # None THEN << <<"s">> \o a.btr[1] \o <<CR>> >>
    ELSE <<>>

\* C4 as stated: a successful construction writes C, then the configuration
\* command(s), then the open command once, and ends with the session open.
C4_ConstructionSequence ==
    (last.op = "__init__" /\ last.raised = "none") =>
        LET w == last.wrote
            n == Len(w)
        IN  /\ n >= 2
            /\ w[1] = <<"C", CR>>
            /\ w[n] \in {<<"O", CR>>, <<"L", CR>>}
            /\ \A i \in 2..(n - 1) : IsConfigLine(w[i])
            /\ Session(wire) \in {"Open-Normal", "Open-ListenOnly"}

\* C4, amended: a successful construction given a timing, a bitrate or a btr writes
\* C, the configuration command(s) the arguments select, and then the open command
\* twice (the set_* method's and the constructor's own); one given none of them
\* writes the open command alone; either way the session ends open in the mode of
\* listen_only.
C4_ConstructionWrites ==
    (last.op = "__init__" /\ last.raised = "none") =>
        LET a == last.args
            opn == IF a.listen_only THEN <<"L", CR>> ELSE <<"O", CR>>
            cfg == ExpectedConfig(a)
        IN  /\ last.wrote = IF cfg = <<>> THEN <<opn>>
                            ELSE << <<"C", CR>> >> \o cfg \o <<opn, opn>>
            /\ wire = last.wrote
            /\ phase = "up"
            /\ Session(wire) = IF a.listen_only THEN "Open-ListenOnly" ELSE "Open-Normal"

C4_Witness ==
    /\ last.op = "__init__"
    /\ last.raised = "none"
    /\ last.args.timing = Some(FdTiming)
    /\ Len(last.wrote) = 5

\* C5: every configuration command on the wire was written while the session was
\* Closed: the last channel command before it is C.
C5_ConfigOnlyWhileClosed ==
    \A i \in 1..Len(wire) :
        IsConfigLine(wire[i]) => LastChannel(SubSeq(wire, 1, i - 1)) = "C"

C5_Witness ==
    /\ last.op = "_set_bit_timing_fd"
    /\ last.raised = "none"
    /\ Session(PreWire) # "Closed"
    /\ \E i \in 1..Len(last.wrote) : last.wrote[i][1] = "p"

\* C6 as stated: a construction that raised left no open transport.
C6_FailureReleasesTransport ==
    (last.op = "__init__" /\ last.raised # "none") => port # "open"

\* C12: a construction with an empty channel, with a bitrate that is no preset, or
\* with both bitrate and btr raises a configuration error (ValueError), not an
\* initialization or operation error; with an empty channel it raises before the
\* transport is opened.  (A construction whose transport did open is one whose
\* serial_for_url succeeded.)
C12_ConfigurationErrors ==
    last.op = "__init__" =>
        LET a == last.args
        IN  /\ a.channel = ""
                  => (last.raised = "ValueError" /\ port = "none" /\ last.wrote = <<>>)
            /\ (port = "open" /\ a.timing = None /\ a.bitrate # None /\ a.btr # None)
                  => last.raised = "ValueError"
            /\ (port = "open" /\ a.timing = None /\ a.bitrate # None /\ a.btr = None
                   /\ a.bitrate[1] \notin DOMAIN BITRATES)
                  => last.raised = "ValueError"

\* C13: every shutdown of a bus whose transport is open, one whose write of C fails
\* included, ends with the transport closed and the session Closed.
C13_ShutdownReleases ==
    (last.op = "shutdown" /\ last.pre_port = "open")
        => (port = "closed" /\ Session(wire) = "Closed")

\* C18: every open command on the wire is L on a bus constructed with listen_only
\* and O on any other: a listen-only bus never writes O, a normal bus never L.
C18_OpenModeFixed ==
    \A i \in 1..Len(wire) :
        /\ wire[i][1] = "O" => ~listen_only
        /\ wire[i][1] = "L" => listen_only

C18_Witness ==
    /\ listen_only
    /\ last.op \in {"set_bitrate", "set_bitrate_reg", "_set_bit_timing_fd", "open"}
    /\ last.raised = "none"
    /\ Len(SelectSeq(wire, LAMBDA l : l[1] = "L")) >= 3

\* C19: a construction given a timing object writes no S command, whatever bitrate
\* and btr it is given too: what it writes is C, the command(s) of the timing
\* object (s for a classical timing, P then p for an FD timing) and the open
\* commands, or the lines of that sequence that precede a failing write.
C19_TimingOverridesBitrate ==
    (last.op = "__init__" /\ last.args.timing # None) =>
        LET a == last.args
            opn == IF a.listen_only THEN <<"L", CR>> ELSE <<"O", CR>>
            all == << <<"C", CR>> >> \o ExpectedConfig([a EXCEPT !.bitrate = None, !.btr = None])
                       \o <<opn, opn>>
        IN  /\ \A i \in 1..Len(last.wrote) : last.wrote[i][1] # "S"
            /\ Len(last.wrote) <= Len(all)
            /\ last.wrote = SubSeq(all, 1, Len(last.wrote))
            /\ last.raised = "none" => last.wrote = all

C19_Witness ==
    /\ last.op = "__init__"
    /\ last.raised = "none"
    /\ last.args.timing = Some(ClassicTiming)
    /\ last.args.bitrate = Some(500000)
    /\ last.args.btr # None
    /\ Len(last.wrote) = 4

-----------------------------------------------------------------------------
(* Properties of the framer specification *)

IsTerminator(b) == b = CR \/ b = BEL

\* a response: it ends in a terminator and holds no other
IsSegment(str) ==
    /\ Len(str) >= 1
    /\ IsTerminator(str[Len(str)])
    /\ \A i \in 1..(Len(str) - 1) : ~IsTerminator(str[i])

\* the strings the reads up to read n returned, joined in order
RECURSIVE ReturnedUpTo(_)
ReturnedUpTo(n) ==
    IF n = 0 THEN <<>>
    ELSE ReturnedUpTo(n - 1) \o (IF hist[n].ret = None THEN <<>> ELSE hist[n].ret[1])

\* the first response of bs: up to its first terminator (all of bs if it has none)
FirstResponse(bs) ==
    IF \E i \in 1..Len(bs) : IsTerminator(bs[i])
    THEN SubSeq(bs, 1, CHOOSE i \in 1..Len(bs) :
                           /\ IsTerminator(bs[i])
                           /\ \A j \in 1..(i - 1) : ~IsTerminator(bs[j]))
    ELSE bs

\* C3: whatever the bytes of the stream and however they are chunked, every read
\* with unbounded timeout returns a response: the next terminator-delimited segment
\* of the stream, ending in its own CR or BEL, with no byte lost, duplicated or
\* reordered.
C3_FramerDeterminism ==
    \A i \in 1..Len(hist) :
        hist[i].deadline = "none" =>
            /\ hist[i].ret # None
            /\ IsSegment(hist[i].ret[1])
            /\ hist[i].ret[1] =
                 FirstResponse(SubSeq(stream, Len(ReturnedUpTo(i - 1)) + 1, Len(stream)))

\* What _read does keep: the strings returned, the framer buffer, the transport's
\* bytes and the bytes still to come always join to the stream (nothing lost,
\* duplicated or reordered, the rest stays buffered); every string returned is one
\* response; a read with unbounded timeout returns the next response of the stream,
\* unless that response holds a byte that does not decode: then it raises an
\* operation error and the buffer keeps the response.
FramerSegments ==
    /\ ReturnedUpTo(Len(hist)) \o buffer \o rx \o pending = stream
    /\ \A i \in 1..Len(hist) :
        LET before == ReturnedUpTo(i - 1)
            next == FirstResponse(SubSeq(stream, Len(before) + 1, Len(stream)))
        IN  /\ hist[i].ret # None => (hist[i].ret[1] = next /\ IsSegment(next))
            /\ hist[i].deadline = "none" =>
                 IF \E j \in 1..Len(next) : next[j] = HI
                 THEN hist[i].ret = None /\ hist[i].result.exc = "CanOperationError"
                 ELSE hist[i].ret # None /\ hist[i].result.exc = "none"

FramerSegments_Witness ==
    /\ Len(hist) >= 2
    /\ hist[1].deadline = "none" /\ hist[2].deadline = "none"
    /\ hist[1].ret = Some(<<BEL>>)
    /\ hist[2].ret = Some(<<CR>>)
    /\ buffer # <<>>

\* C23: whatever the timeout (zero included) and however the bytes arrive, a read
\* that hands back 'no response' leaves no terminator in the framer buffer: a
\* complete response that was in the buffer when the read was entered, or that the
\* read took in, is returned by that read.  (Between two reads nothing touches the
\* buffer, so it is looked at while no read is running.)
C23_NoResponseWithoutTerminator ==
    (/\ rd = Idle
     /\ Len(hist) >= 1
     /\ hist[Len(hist)].ret = None
     /\ hist[Len(hist)].result.exc = "none")
        => \A i \in 1..Len(buffer) : ~IsTerminator(buffer[i])

\* read number n is running (calls counts the reads that were entered)
Reading(n) == rd.caller # "none" /\ calls = n

\* read number n is over
Ended(n) == Len(hist) >= n

\* a terminator is in the buffer, in the transport, or still to arrive
TerminatorComing ==
    \E i \in 1..Len(buffer \o rx \o pending) : IsTerminator((buffer \o rx \o pending)[i])

\* Every read comes to an end, by returning or by raising: one with a deadline
\* whatever arrives, one without when a terminator is there or arrives.
ReadEnds ==
    \A n \in 1..MaxReads :
        /\ (Reading(n) /\ rd.deadline # "none") ~> Ended(n)
        /\ (Reading(n) /\ rd.deadline = "none" /\ TerminatorComing) ~> Ended(n)

ReadEnds_Witness ==
    /\ Len(hist) = 2
    /\ hist[1].deadline = "finite" /\ hist[1].ret = None /\ hist[1].result.exc = "none"
    /\ hist[2].deadline = "none" /\ hist[2].ret # None
    /\ ~TerminatorComing
    /\ Len(buffer) > 0

\* C24: under fair scheduling a read with a finite (or zero) timeout eventually
\* returns, a response or 'no response', whatever the transport delivers; a read
\* with no timeout eventually returns a response when a terminator is in the buffer
\* or arrives.
C24_ReadTermination ==
    \A n \in 1..MaxReads :
        /\ (Reading(n) /\ rd.deadline # "none")
                ~> (Ended(n) /\ hist[n].result.exc = "none")
        /\ (Reading(n) /\ rd.deadline = "none" /\ TerminatorComing)
                ~> (Ended(n) /\ hist[n].result.exc = "none" /\ hist[n].ret # None)

-----------------------------------------------------------------------------
(* Properties of the receive specification *)

\* C7 as stated: a received frame is never taken (and dropped) by a query, and a
\* query reply is never taken by recv: frames go to recv as messages, replies go to
\* the queries.
C7_Demultiplexing ==
    \A i \in 1..Len(hist) :
        /\ hist[i].ret = Some(FrameUnit)
             => (hist[i].caller = "recv" /\ hist[i].result.kind = "msg")
        /\ hist[i].ret \in {Some(Reply(<<"V">>)), Some(Reply(<<"N">>))}
             => hist[i].caller # "recv"

\* C10 as stated: a response that is not a well-formed frame makes recv return no
\* message: it neither raises nor returns a message.
C10_UnparseableIsNoMessage ==
    \A i \in 1..Len(hist) :
        (hist[i].caller = "recv" /\ hist[i].ret # None /\ hist[i].ret # Some(FrameUnit))
            => hist[i].result = RetNone

\* the leading bytes _recv_internal takes for a frame
FramePrefixes == {"t", "T", "x", "r", "R", "d", "D", "b", "B"}

\* C11: a response that starts with no frame prefix (a bare CR, a BEL, a V or N
\* reply) makes recv return no message; the response is consumed, so each recv
\* returns the response that follows the ones returned before it; the filtered flag
\* of recv is false in every outcome.
C11_NonFrameConsumed ==
    /\ ReturnedUpTo(Len(hist)) \o buffer \o rx \o pending = stream
    /\ \A i \in 1..Len(hist) :
         /\ hist[i].ret # None =>
               hist[i].ret[1] =
                   FirstResponse(SubSeq(stream, Len(ReturnedUpTo(i - 1)) + 1, Len(stream)))
         /\ hist[i].caller = "recv" =>
               /\ hist[i].result.filtered = FALSE
               /\ (hist[i].ret # None /\ hist[i].ret[1][1] \notin FramePrefixes)
                     => hist[i].result = RetNone

C11_Witness ==
    /\ Len(hist) = 2
    /\ hist[1].caller = "recv" /\ hist[1].ret = Some(ErrorUnit) /\ hist[1].result = RetNone
    /\ hist[2].caller = "recv" /\ hist[2].ret = Some(FrameUnit)
    /\ hist[2].result.kind = "msg"

-----------------------------------------------------------------------------
(* Properties of the flush specification *)

\* the bytes the first n calls took out of the inbound stream: the responses the
\* reads returned and what the flushes found in the framer buffer and (for a flush
\* that returned) in the transport
RECURSIVE Consumed(_)
Consumed(n) ==
    IF n = 0 THEN <<>>
    ELSE Consumed(n - 1) \o
         (IF hist[n].caller = "flush"
          THEN IF hist[n].result = RetNone THEN hist[n].inbuf \o hist[n].intransport
               ELSE hist[n].inbuf
          ELSE IF hist[n].ret = None THEN <<>> ELSE hist[n].ret[1])

\* a flush that returns leaves the framer buffer and the transport's input empty
FlushLeavesNothing ==
    (Len(hist') = Len(hist) + 1 /\ hist'[Len(hist')].caller = "flush"
       /\ hist'[Len(hist')].result = RetNone)
        => (buffer' = <<>> /\ rx' = <<>>)

\* every response a read returns is the first response of the stream after the bytes
\* returned or discarded before it, and no other byte is lost
NothingReturnedTwice ==
    /\ Consumed(Len(hist)) \o buffer \o rx \o pending = stream
    /\ \A i \in 1..Len(hist) :
         (hist[i].caller # "flush" /\ hist[i].ret # None) =>
             hist[i].ret[1] =
                 FirstResponse(SubSeq(stream, Len(Consumed(i - 1)) + 1, Len(stream)))

\* C16: when flush() has returned the framer buffer is empty and the transport holds
\* no input; no byte that was in either of them when flush was called appears in a
\* response returned by a later read.
C16_FlushDiscards == [][FlushLeavesNothing]_vars /\ []NothingReturnedTwice

C16_Witness ==
    /\ Len(hist) = 3
    /\ hist[1].caller = "_read" /\ hist[1].ret = None
    /\ hist[2].caller = "flush" /\ hist[2].result = RetNone
    /\ hist[2].inbuf = <<"t">> /\ hist[2].intransport = <<"t">>
    /\ hist[3].caller = "_read" /\ hist[3].ret = Some(<<CR>>)

-----------------------------------------------------------------------------
(* Properties of the call specification *)

IsQuery(caller) == caller \in {"get_version", "get_serial_number"}

\* a two-digit decimal field
TwoDigits(a, b) == 10 * DigitVal(a, 10) + DigitVal(b, 10)

\* C14: a query writes exactly one command (V or N) and takes exactly one response
\* from the framer; it hands back the decoded value exactly when that response has
\* six characters and starts with the command letter (two two-digit decimal fields
\* for V, characters 1..4 for N), and 'unknown' in every other case, a timeout
\* included; it never raises on a malformed reply.
C14_QueryExchange ==
    /\ Consumed(Len(hist)) \o buffer \o rx \o pending = stream
    /\ (IsQuery(last.op) /\ last.raised = "none")
          => last.wrote = << QueryCmd(last.op) \o <<CR>> >>
    /\ \A i \in 1..Len(hist) :
         IsQuery(hist[i].caller) =>
             LET r == hist[i].ret
                 res == hist[i].result
                 wf == /\ r # None
                       /\ Len(r[1]) = 6
                       /\ r[1][1] = QueryCmd(hist[i].caller)[1]
             IN  /\ res.kind # "raise"
                 /\ IF wf
                    THEN /\ res.kind = "value"
                         /\ res.msg = IF hist[i].caller = "get_version"
                                      THEN <<TwoDigits(r[1][2], r[1][3]),
                                             TwoDigits(r[1][4], r[1][5])>>
                                      ELSE SubSeq(r[1], 2, 5)
                    ELSE res = RetNone

\* the step is a call: calls counts the calls that were made
IsCall == calls' = calls + 1

\* the lines a call put on the wire: a query that went on to read holds them in rd,
\* any other call in last
CallWrote == IF rd' # Idle THEN rd'.wrote ELSE last'.wrote

\* the commands a call that returns writes, each with its one terminator
CallLines(op, args) ==
    LET opn == IF listen_only THEN <<"L", CR>> ELSE <<"O", CR>>
        cls == <<"C", CR>>
    IN  IF op = "send" THEN << SendStr(args.msg) \o <<CR>> >>
        ELSE IF op = "open" THEN <<opn>>
        ELSE IF op = "close" THEN <<cls>>
        ELSE IF op = "set_bitrate"
        THEN <<cls, IF args = 500000 THEN <<"S", "6", CR>> ELSE <<"S", "9", CR>>, opn>>
        ELSE IF op = "set_bitrate_reg" THEN <<cls, <<"s">> \o args \o <<CR>>, opn>>
        ELSE IF op = "_set_bit_timing_fd"
        THEN <<cls>> \o ExpectedConfig([timing |-> Some(args)]) \o <<opn>>
        ELSE IF op = "get_version" THEN << <<"V", CR>> >>
        ELSE IF op = "get_serial_number" THEN << <<"N", CR>> >>
        ELSE <<>>

\* a call extends the wire by what it wrote and nothing else touches the wire; a
\* call that went through wrote its commands in order, one terminator after each
OutboundStep ==
    /\ wire' = IF IsCall THEN wire \o CallWrote ELSE wire
    /\ (IsCall /\ rd' # Idle) => CallWrote = CallLines(rd'.caller, <<>>)
    /\ (IsCall /\ rd' = Idle /\ last'.raised = "none")
          => CallWrote = CallLines(last'.op, last'.args)

\* C15: the bytes on the wire are the commands of the calls that went through, in
\* call order, each followed by exactly one CR; none is reordered, merged,
\* duplicated or held back.
C15_OutboundFifo == [][OutboundStep]_vars

C15_Witness ==
    /\ last.op = "set_bitrate"
    /\ last.raised = "none"
    /\ wire = << <<"O", CR>>, <<"V", CR>>, <<"C", CR>>, <<"S", "6", CR>>, <<"O", CR>> >>

\* a send sets the write-timeout to its argument, also when its write then fails;
\* no other step changes it
WriteTimeoutStep ==
    write_timeout' = IF IsCall /\ rd' = Idle /\ last'.op = "send"
                     THEN last'.args.timeout
                     ELSE write_timeout

\* C20: after every send(msg, timeout) the transport's write-timeout is the timeout
\* of that call, set before the command is written (so also when the write fails);
\* no other operation (recv, flush, the queries, the channel commands) changes it.
C20_WriteTimeout == [][WriteTimeoutStep]_vars

C20_Witness ==
    /\ last.op = "send"
    /\ last.raised = "CanOperationError"
    /\ last.args.timeout = Some(1)
    /\ write_timeout = Some(1)
    /\ Len(hist) >= 1

-----------------------------------------------------------------------------
(* Properties of reconfiguration *)

Reconfigurations == {"set_bitrate", "set_bitrate_reg", "_set_bit_timing_fd"}

IsPrefix(s, t) == Len(s) <= Len(t) /\ s = SubSeq(t, 1, Len(s))

\* C25: a reconfiguration (set_bitrate, set_bitrate_reg, _set_bit_timing_fd) in which
\* a write fails raises and writes nothing after the failed write: what it wrote is a
\* prefix of C, the configuration command(s), O/L, a call that did not raise wrote all
\* of them, and when C reached the wire and the reopening did not, the session is
\* Closed.  An unsupported bitrate raises ValueError with nothing written.
C25_PartialReconfiguration ==
    last.op \in Reconfigurations =>
        IF last.op = "set_bitrate" /\ last.args \notin DOMAIN BITRATES
        THEN last.raised = "ValueError" /\ last.wrote = <<>> /\ wire = PreWire
        ELSE LET lines == CallLines(last.op, last.args)
             IN  /\ last.raised \in {"none", "CanOperationError"}
                 /\ IsPrefix(last.wrote, lines)
                 /\ last.raised = "none" => last.wrote = lines
                 /\ (last.wrote # <<>> /\ last.wrote # lines) =>
                        /\ last.raised = "CanOperationError"
                        /\ Session(wire) = "Closed"

C25_Witness ==
    /\ last.op = "_set_bit_timing_fd"
    /\ last.raised = "CanOperationError"
    /\ Len(last.wrote) = 2
    /\ Session(PreWire) # "Closed"
    /\ Session(wire) = "Closed"

C25_RejectedWitness ==
    /\ last.op = "set_bitrate"
    /\ last.raised = "ValueError"
    /\ Session(wire) # "Closed"

-----------------------------------------------------------------------------
(* Properties of the task specification *)

TaskIds == 1..Len(tasks)

\* the step changed a task or the list of the bus
TasksChanged == taskvars' # taskvars

\* the list of the bus: tasks that exist, none twice; a task made with store_task
\* false, or made by the caller, is never on it; a stored task is on it as long as it
\* runs; a task stopped by its own stop() is off it
RegistryInv ==
    /\ \A i \in 1..Len(periodic_tasks) :
            /\ periodic_tasks[i] \in TaskIds
            /\ \A j \in 1..Len(periodic_tasks) : periodic_tasks[i] = periodic_tasks[j] => i = j
    /\ \A id \in TaskIds :
            /\ ~tasks[id].stored => ~InList(periodic_tasks, id)
            /\ (tasks[id].stored /\ ~tasks[id].stopped) => InList(periodic_tasks, id)
            /\ tasks[id].stopped_by \in {"stop", "error"} => ~InList(periodic_tasks, id)

\* send_periodic puts the new task on the list unless store_task is false;
\* task.stop() stops that task and takes exactly it off the list;
\* stop_all_periodic_tasks(remove_tasks = false) stops the tasks on the list, leaves
\* the list as it is and leaves the tasks that are not on it running
RegistryStep ==
    /\ (TasksChanged /\ last'.op = "send_periodic") =>
            /\ Len(tasks') = Len(tasks) + 1
            /\ InList(periodic_tasks', Len(tasks')) <=> last'.args
            /\ Without(periodic_tasks', Len(tasks')) = periodic_tasks
    /\ (TasksChanged /\ last'.op = "task.stop") =>
            /\ tasks'[last'.args].stopped
            /\ periodic_tasks' = Without(periodic_tasks, last'.args)
            /\ \A id \in TaskIds \ {last'.args} : tasks'[id] = tasks[id]
    /\ (TasksChanged /\ last'.op = "stop_all_periodic_tasks" /\ last'.args = FALSE) =>
            /\ periodic_tasks' = periodic_tasks
            /\ \A id \in TaskIds :
                    IF InList(periodic_tasks, id) THEN tasks'[id].stopped
                    ELSE tasks'[id] = tasks[id]

\* C21: a task made by send_periodic with the default store_task is on the list of
\* the bus until it is stopped, and its stop() takes exactly that task off; a task
\* made with store_task false is never on the list and goes on sending;
\* stop_all_periodic_tasks(remove_tasks = false) stops the tasks on the list and
\* leaves them on it.
C21_PeriodicRegistry == [][RegistryStep]_vars /\ []RegistryInv

\* task 1 was taken off by its stop(), task 2 was stopped by stop_all and is still on
\* the list, task 3 was made with store_task false and has just sent
C21_Witness ==
    /\ Len(tasks) = 3
    /\ tasks[1].stored /\ tasks[1].stopped_by = "stop"
    /\ tasks[2].stored /\ tasks[2].stopped_by = "stop_all"
    /\ periodic_tasks = <<2>>
    /\ ~tasks[3].stored /\ tasks[3].on_error = "none" /\ ~tasks[3].stopped
    /\ last.op = "send" /\ last.raised = "none"
    /\ Len(tasks[3].attempts) >= 1

-----------------------------------------------------------------------------
(* Properties of the cyclic-send specification *)

\* the sends of task t that raised
Failed(t) == SelectSeq(t.attempts, LAMBDA a : a.raised)

\* on_error is called for the sends that raised and for no other; a task whose
\* callback returns false stops at the first call, one whose callback returns true
\* is not stopped by a send that raised
OnErrorHandling ==
    \A id \in TaskIds :
        LET t == tasks[id]
            n == Len(t.attempts)
        IN  /\ t.on_error # "none" => t.errors = Len(Failed(t))
            /\ t.on_error = "false" =>
                    /\ t.errors <= 1
                    /\ t.errors = 1 => (t.stopped /\ t.attempts[n].raised)
            /\ t.on_error = "true" => t.stopped_by # "error"

\* a send made while the transport is closed raises; one made while it is open
\* raises only if the transport fails the write
SendRaisesWhenClosed ==
    \A id \in TaskIds :
        \A k \in 1..Len(tasks[id].attempts) :
            LET a == tasks[id].attempts[k]
            IN  a.raised <=> (~a.open \/ a.fault)

\* C22: while the bus is up a send of a cyclic task that the transport takes does not
\* raise, so on_error is not called; once the bus has been shut down every send of
\* the task raises and on_error is called for it; the task stops after exactly one
\* call of on_error when the callback returns false and goes on, calling on_error
\* again at each later period, when it returns true.
C22_CyclicSendAfterShutdown ==
    /\ OnErrorHandling
    /\ \A id \in TaskIds :
            \A k \in 1..Len(tasks[id].attempts) :
                LET a == tasks[id].attempts[k]
                IN  /\ (~a.shut /\ ~a.fault) => ~a.raised
                    /\ a.shut => a.raised

\* shutdown closed the transport, and a task whose callback returns true has had two
\* sends raise since, and is still running
CyclicSend_Witness ==
    /\ is_shutdown /\ port = "closed"
    /\ \E id \in TaskIds :
            /\ tasks[id].on_error = "true"
            /\ tasks[id].errors = 2
            /\ ~tasks[id].stopped
            /\ \A k \in 1..2 : tasks[id].attempts[k].shut /\ ~tasks[id].attempts[k].fault

-----------------------------------------------------------------------------
(* Properties of the concurrent-read specification *)

AllIdle == \A t \in Threads : thr[t].pc = "idle"

\* every response is delivered exactly once and in arrival order: each string a call
\* returned is the response of the stream that follows the ones returned before it,
\* and between calls what was returned, the buffer, the transport's bytes and the
\* bytes to come join to the stream
ExactlyOnce ==
    /\ \A i \in 1..Len(hist) :
            LET next == FirstResponse(SubSeq(stream, Len(ReturnedUpTo(i - 1)) + 1,
                                             Len(stream)))
            IN  hist[i].ret # None => (hist[i].ret[1] = next /\ IsSegment(next))
    /\ AllIdle => ReturnedUpTo(Len(hist)) \o buffer \o rx \o pending = stream

\* C26: two threads that read the same bus can have a response returned to both of
\* them, or a response dropped, only when no lock serialises their calls: with every
\* call under one lock each response is delivered exactly once, in arrival order.
C26_RaceOnlyWithoutLock == ~ExactlyOnce => ~mutex.used

\* the race: with no lock, the adapter delivered CR then BEL, both threads returned
\* the CR response and the BEL response is gone
C26_Witness ==
    /\ ~mutex.used
    /\ AllIdle
    /\ stream = <<CR, BEL>>
    /\ Len(hist) = 2
    /\ hist[1].thread # hist[2].thread
    /\ hist[1].ret = Some(<<CR>>) /\ hist[2].ret = Some(<<CR>>)
    /\ buffer = <<>> /\ rx = <<>> /\ pending = <<>>

\* the serialised case: under the lock the two threads returned the two responses
SerialisedReads_Witness ==
    /\ mutex.used
    /\ AllIdle
    /\ stream = <<CR, BEL>>
    /\ Len(hist) = 2
    /\ hist[1].thread # hist[2].thread
    /\ hist[1].ret = Some(<<CR>>) /\ hist[2].ret = Some(<<BEL>>)

-----------------------------------------------------------------------------
(* Properties of the length-code specification *)

\* str.upper() of one character
Upper(c) ==
    IF \E i \in 1..6 : LowerHex[i] = c
    THEN HexChars[10 + (CHOOSE i \in 1..6 : LowerHex[i] = c)]
    ELSE c

IsNibble(c) == \E i \in 1..16 : HexChars[i] = Upper(c)

\* C17: decoding the code of a canonical length gives the length back; encoding the
\* length of a hex digit (in either case) gives the digit back in upper case; every
\* length that is not canonical encodes to F; every character that is no hex digit
\* decodes to 64.
C17_DlcRoundTrip ==
    /\ last.op = "encode_dlc_hex" =>
          IF last.args \in CanonicalLengths
          THEN decode_hex_dlc(last.result) = last.args
          ELSE last.result = "F"
    /\ last.op = "decode_hex_dlc" =>
          IF IsNibble(last.args)
          THEN last.raised = "none" /\ encode_dlc_hex(last.result) = Upper(last.args)
          ELSE last.raised = "none" /\ last.result = FdMax

-----------------------------------------------------------------------------
(* Properties of the codec specification *)

\* a message as the data model admits it: the id fits its width (11 bits, or 29 bits
\* extended), a remote frame has a
\* length 0..8 and no data, a classical frame up to 8 bytes, an FD frame a canonical
\* number of bytes; dlc is the length of the data
WellFormed(m) ==
    /\ m.arbitration_id \in 0..(IF m.is_extended_id THEN 536870911 ELSE 2047)
    /\ ~(m.is_remote_frame /\ m.is_fd)
    /\ IF m.is_remote_frame
       THEN m.data = <<>> /\ m.dlc \in 0..8 /\ ~m.bitrate_switch
       ELSE /\ m.dlc = Len(m.data)
            /\ IF m.is_fd THEN m.dlc \in CanonicalLengths
               ELSE m.dlc \in 0..8 /\ ~m.bitrate_switch

\* the hex payload of a written data line: what follows the prefix, the id and the
\* length character, up to the terminator
PayloadOf(line, m) ==
    SubSeq(line, (IF m.is_extended_id THEN 10 ELSE 5) + 1, Len(line) - 1)

\* C8 as stated: an FD message whose DLC nibble is F and whose data is shorter than
\* 64 bytes goes out as its data followed by zero bytes, 64 bytes (128 hex
\* characters) in all, whatever its dlc field says.
C8_FdPaddingTo64 ==
    (/\ last.op = "send"
     /\ last.raised = "none"
     /\ last.args.msg.is_fd
     /\ encode_dlc_hex(last.args.msg.dlc) = "F"
     /\ Len(last.args.msg.data) < 64)
        => LET m == last.args.msg
               payload == PayloadOf(last.wrote[1], m)
               n == Len(BytesHex(m.data))
           IN  /\ Len(payload) = 128
               /\ SubSeq(payload, 1, n) = BytesHex(m.data)
               /\ \A i \in (n + 1)..128 : payload[i] = "0"

\* C9: the k-th frame the adapter echoes decodes to the k-th message sent: recv
\* returns a message equal to it on arbitration_id, is_extended_id,
\* is_remote_frame, is_fd, bitrate_switch, dlc and data, for every well-formed
\* message.
C9_FrameRoundTrip ==
    \A k \in 1..Len(hist) :
        (hist[k].caller = "recv" /\ k <= Len(sent) /\ WellFormed(sent[k]))
            => /\ hist[k].ret # None
               /\ hist[k].result.kind = "msg"
               /\ hist[k].result.msg = sent[k]

C9_Witness ==
    /\ Len(hist) = 1
    /\ Len(sent) = 1
    /\ hist[1].result.kind = "msg"
    /\ hist[1].result.msg = sent[1]
    /\ sent[1].is_fd /\ sent[1].bitrate_switch /\ sent[1].is_extended_id
    /\ sent[1].dlc = 48
    /\ sent[1].arbitration_id = 536870911

====
